---- MODULE Spec2Model ----
(***************************************************************************)
(* Terminal emulation core of bexa-ui-core (widgets/terminal.rs): the      *)
(* TermGrid performer driven by vte parser events, its 256-colour lookup   *)
(* and the PTY write end it answers device-status queries on.              *)
(*                                                                         *)
(* Rows, columns and Vec positions are 0-based as in the source; TLA+      *)
(* sequences are 1-based, so cells[r + 1][c + 1] is the source's           *)
(* cells[r][c].                                                            *)
(***************************************************************************)
EXTENDS Integers, Sequences, FiniteSets

\* ---------------------------------------------------------------- bounds
MaxRows == 3
MaxCols == 2
MaxSteps == 3
\* One wide single-row grid, so that tab stops and two-digit column numbers
\* occur.
WideCols == 10
\* The 256-colour specification: indices 0..MaxIndex, MaxColourSteps lookups.
MaxIndex == 260
MaxColourSteps == 1
\* The keyboard specification: at most MaxKeys key events.
MaxKeys == 1
\* The PTY session: the input buffer of the PTY holds PtyCapacity bytes and
\* the child writes at most MaxOutput buffers of output.
PtyCapacity == 7
MaxOutput == 2
\* The SGR specification: at most MaxSgrSteps prints and SGR sequences.
MaxSgrSteps == 2

Dims == {<<r, c>> : r \in 1..MaxRows, c \in 1..MaxCols} \cup {<<1, WideCols>>}
Chars == {"a", "b"}

\* ------------------------------------------------------ integer helpers
SatSub(a, b) == IF a >= b THEN a - b ELSE 0
Min(a, b) == IF a <= b THEN a ELSE b
U16(n) == n % 65536
U8(n) == n % 256

\* ------------------------------------------------------------ TermCell
DefaultFg == <<204, 204, 204>>
\* Option<[u8; 3]>: None is the empty tuple, Some(rgb) is the triple.
NoBg == <<>>
DefaultCell == [ch |-> " ", fg |-> DefaultFg, bg |-> NoBg, bold |-> FALSE]

BlankRow(n) == [j \in 1..n |-> DefaultCell]

\* ------------------------------------------------------- Vec operations
\* Vec::remove(i), Vec::insert(i, x), Vec::resize(n, x), Vec::truncate(n),
\* Vec::push(x): the callers below check the ranges Rust checks.
VecRemove(s, i) == SubSeq(s, 1, i) \o SubSeq(s, i + 2, Len(s))
VecInsert(s, i, x) == SubSeq(s, 1, i) \o <<x>> \o SubSeq(s, i + 1, Len(s))
VecResize(s, n, x) == [k \in 1..n |-> IF k <= Len(s) THEN s[k] ELSE x]
VecTruncate(s, n) == IF Len(s) > n THEN SubSeq(s, 1, n) ELSE s

\* ------------------------------------------------------------ TermGrid
VARIABLES cells, rows, cols, cursor_row, cursor_col,
          current_fg, current_bg, current_bold,
          scroll_top, scroll_bottom, pty_writer,
          pty_out, panic, last, steps,
          write_end, focus, handled, keys,
          grid_lock, writer_lock, ui, reader, pty, wire, layout

vars == <<cells, rows, cols, cursor_row, cursor_col,
          current_fg, current_bg, current_bold,
          scroll_top, scroll_bottom, pty_writer,
          pty_out, panic, last, steps,
          write_end, focus, handled, keys,
          grid_lock, writer_lock, ui, reader, pty, wire, layout>>

\* The state outside the grid: the PTY write end behind the shared writer
\* ("open", or "broken" once writes to it fail), the widget's focus flag, the
\* value the last handle_key_event returned and the number of key events
\* handled.
widget_vars == <<write_end, focus, handled, keys>>

\* The PTY session: the holders of the grid's mutex and of the writer's
\* mutex ("free", "ui", "reader"), the position of the UI thread and of the
\* reader thread, the PTY pair with the child on its slave side, the bytes
\* the write end has accepted so far, and the size (rows, columns) of the
\* rectangle the last layout pass gave the widget (<<0, 0>> before the first
\* layout pass).
session_vars == <<grid_lock, writer_lock, ui, reader, pty, wire, layout>>

\* The grid as one value: the fields of TermGrid, the writes received by the
\* PTY write end behind pty_writer (pty_out, one element per write_all), the
\* panic raised by the handler that is running ("none", "index" for an
\* out-of-range Vec access, "overflow" for u8 arithmetic overflow in a build
\* with overflow checks) and whether u8 arithmetic wrapped in this handler.
\* write_end is the state of the write end the writer wraps.
Self ==
  [cells |-> cells, rows |-> rows, cols |-> cols,
   cursor_row |-> cursor_row, cursor_col |-> cursor_col,
   current_fg |-> current_fg, current_bg |-> current_bg,
   current_bold |-> current_bold,
   scroll_top |-> scroll_top, scroll_bottom |-> scroll_bottom,
   pty_writer |-> pty_writer, pty_out |-> pty_out,
   write_end |-> write_end,
   panic |-> panic, wrapped |-> FALSE]

TermGridNew(r, c) ==
  [cells |-> [i \in 1..r |-> BlankRow(c)], rows |-> r, cols |-> c,
   cursor_row |-> 0, cursor_col |-> 0,
   current_fg |-> DefaultFg, current_bg |-> NoBg, current_bold |-> FALSE,
   scroll_top |-> 0, scroll_bottom |-> SatSub(r, 1),
   pty_writer |-> FALSE, pty_out |-> <<>>,
   write_end |-> "open",
   panic |-> "none", wrapped |-> FALSE]

\* Terminal::spawn_pty installs the write end in the grid before the reader
\* thread that delivers parser events is started.
\* Mutant of SpawnPty: the grid's write end is not installed.
SpawnPtyNoWriter(g) == g

SpawnPty(g) == [g EXCEPT !.pty_writer = TRUE]

\* Mutant of WriteAll: the result of write_all is unwrapped.
WriteAllUnwrap(g, data) ==
  IF g.pty_writer
  THEN IF g.write_end = "open" THEN [g EXCEPT !.pty_out = Append(@, data)]
       ELSE [g EXCEPT !.panic = "io"]
  ELSE g

\* if let Some(ref writer) = pty_writer { if let Ok(mut w) = writer.lock() {
\*   let _ = w.write_all(data); let _ = w.flush(); } }
\* The results are discarded: a broken write end receives nothing and the
\* caller goes on.
WriteAll(g, data) ==
  IF g.pty_writer /\ g.write_end = "open"
  THEN [g EXCEPT !.pty_out = Append(@, data)]
  ELSE g

\* ---- checked Vec accesses: each is skipped once the handler has panicked
Ok(g) == g.panic = "none"
IndexPanic(g) == [g EXCEPT !.panic = "index"]

RemoveRow(g, i) ==
  IF ~Ok(g) THEN g
  ELSE IF i >= Len(g.cells) THEN IndexPanic(g)
  ELSE [g EXCEPT !.cells = VecRemove(@, i)]

InsertRow(g, i, row) ==
  IF ~Ok(g) THEN g
  ELSE IF i > Len(g.cells) THEN IndexPanic(g)
  ELSE [g EXCEPT !.cells = VecInsert(@, i, row)]

SetCell(g, r, c, cell) ==
  IF ~Ok(g) THEN g
  ELSE IF r >= Len(g.cells) THEN IndexPanic(g)
  ELSE IF c >= Len(g.cells[r + 1]) THEN IndexPanic(g)
  ELSE [g EXCEPT !.cells[r + 1][c + 1] = cell]

\* for col in from..to (exclusive) { cells[r][col] = default }
RECURSIVE EraseCols(_, _, _, _)
EraseCols(g, r, from, to) ==
  IF from >= to \/ ~Ok(g) THEN g
  ELSE EraseCols(SetCell(g, r, from, DefaultCell), r, from + 1, to)

\* for row in from..to (exclusive) { for col in 0..cols { cells[row][col] = default } }
RECURSIVE EraseRows(_, _, _)
EraseRows(g, from, to) ==
  IF from >= to \/ ~Ok(g) THEN g
  ELSE EraseRows(EraseCols(g, from, 0, g.cols), from + 1, to)

\* ------------------------------------------------------------- resize
\* Mutant of Resize: the scroll region is kept (clamped) instead of reset.
ResizeKeepRegion(g, r, c) ==
  LET grown == VecResize(g.cells, r, BlankRow(c))
      sized == [i \in 1..r |-> VecResize(grown[i], c, DefaultCell)]
  IN  [g EXCEPT !.rows = r, !.cols = c, !.cells = sized,
                !.cursor_row = Min(g.cursor_row, SatSub(r, 1)),
                !.cursor_col = Min(g.cursor_col, SatSub(c, 1)),
                !.scroll_top = Min(g.scroll_top, SatSub(r, 1)),
                !.scroll_bottom = Min(g.scroll_bottom, SatSub(r, 1))]

\* Mutant of Resize: the cursor column is clamped to cols instead of cols - 1.
ResizeClampToCols(g, r, c) ==
  LET grown == VecResize(g.cells, r, BlankRow(c))
      sized == [i \in 1..r |-> VecResize(grown[i], c, DefaultCell)]
  IN  [g EXCEPT !.rows = r, !.cols = c, !.cells = sized,
                !.cursor_row = Min(g.cursor_row, SatSub(r, 1)),
                !.cursor_col = Min(g.cursor_col, c),
                !.scroll_top = 0, !.scroll_bottom = SatSub(r, 1)]

Resize(g, r, c) ==
  LET grown == VecResize(g.cells, r, BlankRow(c))
      sized == [i \in 1..r |-> VecResize(grown[i], c, DefaultCell)]
  IN  [g EXCEPT !.rows = r, !.cols = c, !.cells = sized,
                !.cursor_row = Min(g.cursor_row, SatSub(r, 1)),
                !.cursor_col = Min(g.cursor_col, SatSub(c, 1)),
                !.scroll_top = 0, !.scroll_bottom = SatSub(r, 1)]

\* ---------------------------------------------------- scroll_up, newline
ScrollUp(g) ==
  IF g.scroll_top < g.scroll_bottom /\ g.scroll_bottom < g.rows
  THEN InsertRow(RemoveRow(g, g.scroll_top), g.scroll_bottom, BlankRow(g.cols))
  ELSE g

Newline(g) ==
  IF g.cursor_row = g.scroll_bottom THEN ScrollUp(g)
  ELSE IF g.cursor_row + 1 < g.rows THEN [g EXCEPT !.cursor_row = @ + 1]
  ELSE g

\* ---------------------------------------------------------------- erase
\* Mutant of EraseInDisplay: mode 3 is not handled with mode 2.
EraseInDisplayNoMode3(g, mode) ==
  CASE mode = 0 ->
         EraseRows(EraseCols(g, g.cursor_row, g.cursor_col, g.cols),
                   g.cursor_row + 1, g.rows)
    [] mode = 1 ->
         EraseCols(EraseRows(g, 0, g.cursor_row), g.cursor_row, 0,
                   Min(g.cursor_col, SatSub(g.cols, 1)) + 1)
    [] mode = 2 ->
         [g EXCEPT !.cells =
            [i \in 1..Len(g.cells) |-> [j \in 1..Len(g.cells[i]) |-> DefaultCell]]]
    [] OTHER -> g

EraseInDisplay(g, mode) ==
  CASE mode = 0 ->
         EraseRows(EraseCols(g, g.cursor_row, g.cursor_col, g.cols),
                   g.cursor_row + 1, g.rows)
    [] mode = 1 ->
         EraseCols(EraseRows(g, 0, g.cursor_row), g.cursor_row, 0,
                   Min(g.cursor_col, SatSub(g.cols, 1)) + 1)
    [] mode \in {2, 3} ->
         [g EXCEPT !.cells =
            [i \in 1..Len(g.cells) |-> [j \in 1..Len(g.cells[i]) |-> DefaultCell]]]
    [] OTHER -> g

\* Mutant of EraseInLine: mode 1 stops before the cursor's cell.
EraseInLineExclusive(g, mode) ==
  CASE mode = 0 -> EraseCols(g, g.cursor_row, g.cursor_col, g.cols)
    [] mode = 1 -> EraseCols(g, g.cursor_row, 0,
                             Min(g.cursor_col, SatSub(g.cols, 1)))
    [] mode = 2 -> EraseCols(g, g.cursor_row, 0, g.cols)
    [] OTHER -> g

EraseInLine(g, mode) ==
  CASE mode = 0 -> EraseCols(g, g.cursor_row, g.cursor_col, g.cols)
    [] mode = 1 -> EraseCols(g, g.cursor_row, 0,
                             Min(g.cursor_col, SatSub(g.cols, 1)) + 1)
    [] mode = 2 -> EraseCols(g, g.cursor_row, 0, g.cols)
    [] OTHER -> g

\* ------------------------------------------------------- print, execute
PrintChar(g, c) ==
  LET g1 == IF g.cursor_col >= g.cols
            THEN Newline([g EXCEPT !.cursor_col = 0])
            ELSE g
  IN  IF g1.cursor_row < g1.rows /\ g1.cursor_col < g1.cols
      THEN LET g2 == SetCell(g1, g1.cursor_row, g1.cursor_col,
                             [ch |-> c, fg |-> g1.current_fg,
                              bg |-> g1.current_bg, bold |-> g1.current_bold])
           IN  IF Ok(g2) THEN [g2 EXCEPT !.cursor_col = @ + 1] ELSE g2
      ELSE g1

Execute(g, byte) ==
  CASE byte = 10 -> Newline(g)
    [] byte = 13 -> [g EXCEPT !.cursor_col = 0]
    [] byte = 8 -> [g EXCEPT !.cursor_col = SatSub(@, 1)]
    [] byte = 7 -> g
    [] byte = 9 ->
         LET stop == ((g.cursor_col \div 8) + 1) * 8
         IN  [g EXCEPT !.cursor_col =
                IF stop >= g.cols THEN SatSub(g.cols, 1) ELSE stop]
    [] OTHER -> g

\* ------------------------------------------------------ 256-colour lookup
\* The 16 standard/bright entries of ansi_256_to_rgb (n < 16).
Ansi16 ==
  << <<0, 0, 0>>, <<205, 49, 49>>, <<13, 188, 121>>, <<229, 229, 16>>,
     <<36, 114, 200>>, <<188, 63, 188>>, <<17, 168, 205>>, <<204, 204, 204>>,
     <<128, 128, 128>>, <<255, 0, 0>>, <<0, 255, 0>>, <<255, 255, 0>>,
     <<0, 0, 255>>, <<255, 0, 255>>, <<0, 255, 255>>, <<255, 255, 255>> >>

ToVal(v) == IF v = 0 THEN 0 ELSE 55 + 40 * v

\* Mutant of Ansi256ToRgb: the cube component is computed as the second
\* base-6 digit taken from idx / 36 instead of idx % 36.
Ansi256WrongGreen(n) ==
  IF n < 16 THEN [rgb |-> Ansi16[n + 1], wrapped |-> FALSE]
  ELSE IF n < 232 THEN
    LET idx == U8(n - 16)
        r == idx \div 36
        gr == (idx \div 36) \div 6
        b == idx % 6
    IN  [rgb |-> <<ToVal(r), ToVal(gr), ToVal(b)>>, wrapped |-> FALSE]
  ELSE
    LET x == U8(n - 232)
        v == U8(8 + U8(10 * x))
    IN  [rgb |-> <<v, v, v>>, wrapped |-> (10 * x > 255) \/ (8 + 10 * x > 255)]

\* ansi_256_to_rgb(n: u16): the colour, and whether its u8 arithmetic left
\* 0..255 (8 + 10 * x is evaluated on u8: the product first, then the sum).
Ansi256ToRgb(n) ==
  IF n < 16 THEN [rgb |-> Ansi16[n + 1], wrapped |-> FALSE]
  ELSE IF n < 232 THEN
    LET idx == U8(n - 16)
        r == idx \div 36
        gr == (idx % 36) \div 6
        b == idx % 6
    IN  [rgb |-> <<ToVal(r), ToVal(gr), ToVal(b)>>, wrapped |-> FALSE]
  ELSE
    LET x == U8(n - 232)
        v == U8(8 + U8(10 * x))
    IN  [rgb |-> <<v, v, v>>, wrapped |-> (10 * x > 255) \/ (8 + 10 * x > 255)]

\* ------------------------------------------------------------ apply_sgr
\* The literal colours of the direct codes 30-37, 40-47 and 90-97.
SgrFg ==
  << <<0, 0, 0>>, <<205, 49, 49>>, <<13, 188, 121>>, <<229, 229, 16>>,
     <<36, 114, 200>>, <<188, 63, 188>>, <<17, 168, 205>>, <<204, 204, 204>> >>
SgrBg ==
  << <<0, 0, 0>>, <<205, 49, 49>>, <<13, 188, 121>>, <<229, 229, 16>>,
     <<36, 114, 200>>, <<188, 63, 188>>, <<17, 168, 205>>, <<204, 204, 204>> >>
SgrBrightFg ==
  << <<128, 128, 128>>, <<255, 0, 0>>, <<0, 255, 0>>, <<255, 255, 0>>,
     <<0, 0, 255>>, <<255, 0, 255>>, <<0, 255, 255>>, <<255, 255, 255>> >>

SgrReset(g) ==
  [g EXCEPT !.current_fg = DefaultFg, !.current_bg = NoBg,
            !.current_bold = FALSE]

\* The loop of apply_sgr from position i (1-based) of the parameter list;
\* each parameter is the first value of its sub-parameter slice.
RECURSIVE SgrWalk(_, _, _)
SgrWalk(g, params, i) ==
  IF i > Len(params) THEN g
  ELSE
    LET param == params[i] IN
    CASE param = 0 -> SgrWalk(SgrReset(g), params, i + 1)
      [] param = 1 -> SgrWalk([g EXCEPT !.current_bold = TRUE], params, i + 1)
      [] param = 22 -> SgrWalk([g EXCEPT !.current_bold = FALSE], params, i + 1)
      [] param \in 30..37 ->
           SgrWalk([g EXCEPT !.current_fg = SgrFg[param - 29]], params, i + 1)
      [] param = 39 -> SgrWalk([g EXCEPT !.current_fg = DefaultFg], params, i + 1)
      [] param \in 40..47 ->
           SgrWalk([g EXCEPT !.current_bg = SgrBg[param - 39]], params, i + 1)
      [] param = 49 -> SgrWalk([g EXCEPT !.current_bg = NoBg], params, i + 1)
      [] param \in 90..97 ->
           SgrWalk([g EXCEPT !.current_fg = SgrBrightFg[param - 89]], params, i + 1)
      [] param = 38 ->
           IF i + 1 > Len(params) THEN g
           ELSE IF params[i + 1] # 5 THEN SgrWalk(g, params, i + 2)
           ELSE IF i + 2 > Len(params) THEN g
           ELSE LET c == Ansi256ToRgb(params[i + 2])
                IN  SgrWalk([g EXCEPT !.current_fg = c.rgb,
                                      !.wrapped = @ \/ c.wrapped],
                            params, i + 3)
      [] param = 48 ->
           IF i + 1 > Len(params) THEN g
           ELSE IF params[i + 1] # 5 THEN SgrWalk(g, params, i + 2)
           ELSE IF i + 2 > Len(params) THEN g
           ELSE LET c == Ansi256ToRgb(params[i + 2])
                IN  SgrWalk([g EXCEPT !.current_bg = c.rgb,
                                      !.wrapped = @ \/ c.wrapped],
                            params, i + 3)
      [] OTHER -> SgrWalk(g, params, i + 1)

\* Mutant of ApplySgr: every parameter is taken as a code of its own, the
\* arguments of 38 and 48 included.
RECURSIVE SgrWalkFlat(_, _, _)
SgrWalkFlat(g, params, i) ==
  IF i > Len(params) THEN g
  ELSE
    LET param == params[i] IN
    IF param \in {38, 48} /\ i + 2 <= Len(params) /\ params[i + 1] = 5
    THEN LET c == Ansi256ToRgb(params[i + 2])
             g1 == IF param = 38 THEN [g EXCEPT !.current_fg = c.rgb]
                   ELSE [g EXCEPT !.current_bg = c.rgb]
         IN  SgrWalkFlat(SgrWalk(g1, <<params[i + 1], params[i + 2]>>, 1),
                         params, i + 3)
    ELSE SgrWalkFlat(SgrWalk(g, <<param>>, 1), params, i + 1)

ApplySgrFlat(g, params) == SgrWalkFlat(g, params, 1)

ApplySgr(g, params) == SgrWalk(g, params, 1)

\* ---------------------------------------------------------- csi_dispatch
\* The closure p: parameter idx (0-based), 0 or absent meaning default.
P(params, idx, default) ==
  IF idx < Len(params)
  THEN (IF params[idx + 1] = 0 THEN default ELSE params[idx + 1])
  ELSE default

\* format!("{}", n) for an unsigned n: its decimal ASCII digits.
RECURSIVE Decimal(_)
Decimal(n) == IF n < 10 THEN <<48 + n>> ELSE Decimal(n \div 10) \o <<48 + (n % 10)>>

\* Mutant of CprResponse: the position is reported 0-based.
CprResponseZeroBased(row, col) ==
  <<27, 91>> \o Decimal(row) \o <<59>> \o Decimal(col) \o <<82>>

\* "\x1b[{};{}R"
CprResponse(row, col) ==
  <<27, 91>> \o Decimal(row + 1) \o <<59>> \o Decimal(col + 1) \o <<82>>

\* One pass of the body of a `for _ in 0..n` loop, n times. A pass is a
\* function of the grid alone, so once a pass changes nothing the remaining
\* passes change nothing either and are not evaluated.
InsertLineOnce(g) ==
  IF g.cursor_row <= g.scroll_bottom /\ g.scroll_bottom < g.rows
  THEN LET g1 == IF g.scroll_bottom < Len(g.cells)
                 THEN RemoveRow(g, g.scroll_bottom) ELSE g
       IN  InsertRow(g1, g.cursor_row, BlankRow(g.cols))
  ELSE g

DeleteLineOnce(g) ==
  IF g.cursor_row < Len(g.cells)
  THEN LET g1 == RemoveRow(g, g.cursor_row)
       IN  InsertRow(g1, Min(g.scroll_bottom, Len(g1.cells)), BlankRow(g.cols))
  ELSE g

\* Mutant of DeleteCharOnce: the test cursor_col < len is missing.
DeleteCharUnguarded(g) ==
  LET row == g.cursor_row IN
  IF row >= Len(g.cells) THEN IndexPanic(g)
  ELSE IF g.cursor_col >= Len(g.cells[row + 1]) THEN IndexPanic(g)
  ELSE [g EXCEPT !.cells[row + 1] =
          Append(VecRemove(@, g.cursor_col), DefaultCell)]

DeleteCharOnce(g) ==
  LET row == g.cursor_row IN
  IF row >= Len(g.cells) THEN IndexPanic(g)
  ELSE IF g.cursor_col < Len(g.cells[row + 1])
  THEN [g EXCEPT !.cells[row + 1] =
          Append(VecRemove(@, g.cursor_col), DefaultCell)]
  ELSE g

\* Mutant of InsertCharOnce: the row is not truncated after the insert.
InsertCharNoTruncate(g) ==
  LET row == g.cursor_row IN
  IF row >= Len(g.cells) THEN IndexPanic(g)
  ELSE IF g.cursor_col > Len(g.cells[row + 1]) THEN IndexPanic(g)
  ELSE [g EXCEPT !.cells[row + 1] = VecInsert(@, g.cursor_col, DefaultCell)]

InsertCharOnce(g) ==
  LET row == g.cursor_row IN
  IF row >= Len(g.cells) THEN IndexPanic(g)
  ELSE IF g.cursor_col > Len(g.cells[row + 1]) THEN IndexPanic(g)
  ELSE [g EXCEPT !.cells[row + 1] =
          VecTruncate(VecInsert(@, g.cursor_col, DefaultCell), g.cols)]

RECURSIVE InsertLines(_, _)
InsertLines(g, n) ==
  IF n = 0 \/ ~Ok(g) THEN g
  ELSE LET g1 == InsertLineOnce(g) IN IF g1 = g THEN g ELSE InsertLines(g1, n - 1)

RECURSIVE DeleteLines(_, _)
DeleteLines(g, n) ==
  IF n = 0 \/ ~Ok(g) THEN g
  ELSE LET g1 == DeleteLineOnce(g) IN IF g1 = g THEN g ELSE DeleteLines(g1, n - 1)

RECURSIVE DeleteChars(_, _)
DeleteChars(g, n) ==
  IF n = 0 \/ ~Ok(g) THEN g
  ELSE LET g1 == DeleteCharOnce(g) IN IF g1 = g THEN g ELSE DeleteChars(g1, n - 1)

RECURSIVE InsertChars(_, _)
InsertChars(g, n) ==
  IF n = 0 \/ ~Ok(g) THEN g
  ELSE LET g1 == InsertCharOnce(g) IN IF g1 = g THEN g ELSE InsertChars(g1, n - 1)

\* A variant that never finds the element.
ContainsNever(seq, x) == FALSE

Contains(seq, x) == \E k \in 1..Len(seq) : seq[k] = x

CsiDispatch(g, params, intermediates, action) ==
  IF Contains(intermediates, "?") THEN g
  ELSE
    CASE action = "A" ->
           [g EXCEPT !.cursor_row = SatSub(@, P(params, 0, 1))]
      [] action = "B" ->
           [g EXCEPT !.cursor_row = Min(@ + P(params, 0, 1), SatSub(g.rows, 1))]
      [] action = "C" ->
           [g EXCEPT !.cursor_col = Min(@ + P(params, 0, 1), SatSub(g.cols, 1))]
      [] action = "D" ->
           [g EXCEPT !.cursor_col = SatSub(@, P(params, 0, 1))]
      [] action \in {"H", "f"} ->
           [g EXCEPT
              !.cursor_row = Min(SatSub(P(params, 0, 1), 1), SatSub(g.rows, 1)),
              !.cursor_col = Min(SatSub(P(params, 1, 1), 1), SatSub(g.cols, 1))]
      [] action = "J" -> EraseInDisplay(g, P(params, 0, 0))
      [] action = "K" -> EraseInLine(g, P(params, 0, 0))
      [] action = "m" ->
           IF Len(params) = 0 THEN SgrReset(g) ELSE ApplySgr(g, params)
      [] action = "r" ->
           [g EXCEPT
              !.scroll_top = Min(SatSub(P(params, 0, 1), 1), SatSub(g.rows, 1)),
              !.scroll_bottom =
                 Min(SatSub(P(params, 1, U16(g.rows)), 1), SatSub(g.rows, 1))]
      [] action = "L" -> InsertLines(g, P(params, 0, 1))
      [] action = "M" -> DeleteLines(g, P(params, 0, 1))
      [] action = "P" -> DeleteChars(g, P(params, 0, 1))
      [] action = "@" -> InsertChars(g, P(params, 0, 1))
      [] action = "n" ->
           IF P(params, 0, 0) = 6
           THEN WriteAll(g, CprResponse(g.cursor_row, g.cursor_col))
           ELSE g
      [] action = "d" ->
           [g EXCEPT
              !.cursor_row = Min(SatSub(P(params, 0, 1), 1), SatSub(g.rows, 1))]
      [] action = "G" ->
           [g EXCEPT
              !.cursor_col = Min(SatSub(P(params, 0, 1), 1), SatSub(g.cols, 1))]
      [] OTHER -> g

\* ---------------------------------------------------------- esc_dispatch
\* Mutant of EscDispatch: the row removed is the last row of the grid.
EscDispatchWholeScreen(g, byte) ==
  IF byte = "M"
  THEN IF g.cursor_row = g.scroll_top
       THEN InsertRow(RemoveRow(g, SatSub(g.rows, 1)), g.scroll_top,
                      BlankRow(g.cols))
       ELSE [g EXCEPT !.cursor_row = SatSub(@, 1)]
  ELSE g

EscDispatch(g, byte) ==
  IF byte = "M"
  THEN IF g.cursor_row = g.scroll_top
       THEN LET g1 == IF g.scroll_bottom < Len(g.cells)
                      THEN RemoveRow(g, g.scroll_bottom) ELSE g
            IN  InsertRow(g1, g.scroll_top, BlankRow(g.cols))
       ELSE [g EXCEPT !.cursor_row = SatSub(@, 1)]
  ELSE g

\* ------------------------------------------------------ string callbacks
\* hook, put, unhook and osc_dispatch have empty bodies.
StringCallback(g, callback) == g

\* ------------------------------------------------------- the event loop
\* The parser events vte delivers to the performer, and the inputs drawn
\* for them. last is the most recent call on the grid: its kind ("new",
\* "print", "execute", "esc", "csi", "resize"), its character or final byte,
\* its parameters (the control byte of an execute, the size of a resize) and
\* its intermediates.
Ev(kind, code, params, inter) ==
  [kind |-> kind, code |-> code, params |-> params, inter |-> inter]

\* What last keeps of a call: its kind; the final byte and the intermediates
\* of a CSI or ESC sequence, except that the cursor movements share the
\* final byte ""; the parameters of the sequences whose first parameter
\* selects what they do (J, K, n); the control byte of an execute. The
\* string callbacks (hook, put, unhook, osc_dispatch) are one kind.
Track(ev) ==
  CASE ev.kind = "csi" /\ ev.code \in {"J", "K", "n"} -> ev
    [] ev.kind = "csi" /\ ev.code \in {"A", "B", "C", "D", "H", "f", "d", "G"} ->
         Ev("csi", "", <<>>, ev.inter)
    [] ev.kind = "csi" /\ ev.code \notin {"J", "K", "n", "A", "B", "C", "D",
                                          "H", "f", "d", "G"} ->
         Ev("csi", ev.code, <<>>, ev.inter)
    [] ev.kind = "print" -> Ev(ev.kind, "", <<>>, <<>>)
    [] ev.kind = "string" -> Ev(ev.kind, "", <<>>, <<>>)
    [] OTHER -> ev

Pairs(S) == {<<a, b>> : a \in S, b \in S}

ExecBytes == {7, 8, 9, 10, 11, 13}
EscBytes == {"M", "c", "7"}
CountLists == {<<0>>, <<2>>, <<65535>>}
PositionLists == {<<>>, <<0, 0>>, <<2>>, <<65535>>} \cup Pairs({1, 2, 65535})
PositionInputs ==
  {<<ac, pr>> : ac \in {"H", "r"}, pr \in PositionLists}
    \cup {<<"f", pr>> : pr \in {<<>>, <<2, 2>>}}
ModeLists == {<<>>, <<0>>, <<1>>, <<2>>, <<3>>, <<4>>}
SgrLists == {<<>>, <<1>>, <<31>>, <<48, 5, 257>>}
DsrLists == {<<>>, <<5>>, <<6>>}
OtherInputs ==
  {<<<<6>>, <<"?">>, "n">>, <<<<25>>, <<"?">>, "h">>, <<<<2>>, <<"?">>, "J">>,
   <<<<2>>, <<"?">>, "r">>, <<<<1>>, <<>>, "X">>, <<<<>>, <<>>, "h">>,
   <<<<1>>, <<">">>, "m">>, <<<<2>>, <<"$">>, "r">>, <<<<>>, <<">">>, "c">>}

\* A handler's outcomes: where u8 arithmetic left its range the build decides
\* (overflow checks on: the handler panics; off: the value wraps).
Outcomes(g) ==
  IF g.wrapped /\ Ok(g) THEN {g, [g EXCEPT !.panic = "overflow"]} ELSE {g}

Commit(g, l) ==
  /\ cells' = g.cells
  /\ rows' = g.rows
  /\ cols' = g.cols
  /\ cursor_row' = g.cursor_row
  /\ cursor_col' = g.cursor_col
  /\ current_fg' = g.current_fg
  /\ current_bg' = g.current_bg
  /\ current_bold' = g.current_bold
  /\ scroll_top' = g.scroll_top
  /\ scroll_bottom' = g.scroll_bottom
  /\ pty_writer' = g.pty_writer
  /\ pty_out' = g.pty_out
  /\ panic' = g.panic
  /\ last' = l
  /\ steps' = steps + 1

\* A panic ends the reader thread: no later event reaches the grid.
Running == panic = "none" /\ steps < MaxSteps

Deliver(g, ev) ==
  /\ \E o \in Outcomes(g) : Commit(o, Track(ev))
  /\ UNCHANGED widget_vars
  /\ UNCHANGED session_vars

\* vte::Parser::new(): the parser in its ground state, nothing collected.
ParserNew ==
  [state |-> "ground", params |-> <<>>, param |-> 0, inter |-> <<>>,
   utf8 |-> <<>>, need |-> 0]

\* The state after Terminal::new for a grid of d[1] rows and d[2] columns:
\* TermGrid::new, then spawn_pty.
InitGrid(d) ==
  LET g == SpawnPty(TermGridNew(d[1], d[2])) IN
  /\ cells = g.cells
  /\ rows = g.rows
  /\ cols = g.cols
  /\ cursor_row = g.cursor_row
  /\ cursor_col = g.cursor_col
  /\ current_fg = g.current_fg
  /\ current_bg = g.current_bg
  /\ current_bold = g.current_bold
  /\ scroll_top = g.scroll_top
  /\ scroll_bottom = g.scroll_bottom
  /\ pty_writer = g.pty_writer
  /\ pty_out = g.pty_out
  /\ panic = g.panic
  /\ last = Ev("new", "", <<>>, <<>>)
  /\ steps = 0
  /\ write_end = g.write_end
  /\ focus = FALSE
  /\ handled = "none"
  /\ keys = 0
  /\ grid_lock = "free"
  /\ writer_lock = "free"
  /\ ui = [pc |-> "idle", data |-> <<>>, sent |-> 0]
  /\ reader = [pc |-> "read", buf |-> <<>>, data |-> <<>>, sent |-> 0,
               parser |-> ParserNew, seen |-> <<>>]
  /\ pty = [output |-> <<>>, pending |-> 0, child |-> "running", emitted |-> 0]
  /\ wire = <<>>
  /\ layout = <<0, 0>>

Init == \E d \in Dims : InitGrid(d)

PrintEvent ==
  \E c \in Chars :
    /\ Running
    /\ Deliver(PrintChar(Self, c), Ev("print", c, <<>>, <<>>))

ExecuteEvent ==
  \E b \in ExecBytes :
    /\ Running
    /\ Deliver(Execute(Self, b), Ev("execute", "", <<b>>, <<>>))

EscEvent ==
  \E b \in EscBytes :
    /\ Running
    /\ Deliver(EscDispatch(Self, b), Ev("esc", b, <<>>, <<>>))

Csi(params, inter, action) ==
  Deliver(CsiDispatch(Self, params, inter, action),
          Ev("csi", action, params, inter))

CsiCursor ==
  \E ac \in {"A", "B", "C", "D", "d", "G"}, pr \in CountLists :
    /\ Running
    /\ Csi(pr, <<>>, ac)

CsiPosition ==
  \E x \in PositionInputs :
    /\ Running
    /\ Csi(x[2], <<>>, x[1])

CsiErase ==
  \E ac \in {"J", "K"}, pr \in ModeLists :
    /\ Running
    /\ Csi(pr, <<>>, ac)

CsiEdit ==
  \E ac \in {"L", "M", "P", "@"}, pr \in CountLists :
    /\ Running
    /\ Csi(pr, <<>>, ac)

CsiSgr ==
  \E pr \in SgrLists :
    /\ Running
    /\ Csi(pr, <<>>, "m")

CsiDsr ==
  \E pr \in DsrLists :
    /\ Running
    /\ Csi(pr, <<>>, "n")

CsiOther ==
  \E x \in OtherInputs :
    /\ Running
    /\ Csi(x[1], x[2], x[3])

StringEvent ==
  \E callback \in {"hook", "put", "unhook", "osc_dispatch"} :
    /\ Running
    /\ Deliver(StringCallback(Self, callback),
               Ev("string", callback, <<>>, <<>>))

ResizeCall ==
  \E d \in Dims :
    /\ Running
    /\ Deliver(Resize(Self, d[1], d[2]), Ev("resize", "", <<d[1], d[2]>>, <<>>))

Next ==
  \/ PrintEvent
  \/ ExecuteEvent
  \/ EscEvent
  \/ CsiCursor
  \/ CsiPosition
  \/ CsiErase
  \/ CsiEdit
  \/ CsiSgr
  \/ CsiDsr
  \/ CsiOther
  \/ StringEvent
  \/ ResizeCall

Spec == Init /\ [][Next]_vars

\* ------------------------------------------- the 256-colour specification
\* ansi_256_to_rgb on its own: a 1 x 1 grid receives CSI 38;5;n m and
\* CSI 48;5;n m for every index n in 0..MaxIndex; last keeps the parameters.
InitColour == InitGrid(<<1, 1>>)

ColourLookup ==
  \E sel \in {38, 48}, n \in 0..MaxIndex :
    /\ panic = "none"
    /\ steps < MaxColourSteps
    /\ \E o \in Outcomes(CsiDispatch(Self, <<sel, 5, n>>, <<>>, "m")) :
         Commit(o, Ev("csi", "m", <<sel, 5, n>>, <<>>))
    /\ UNCHANGED widget_vars
    /\ UNCHANGED session_vars

NextColour == ColourLookup

SpecColour == InitColour /\ [][NextColour]_vars

\* ------------------------------------------------- the SGR specification
\* apply_sgr on a grid of one row and two columns that also receives
\* prints; last keeps the parameters. The parameter lists: every list of at
\* most two of the plain codes, the 256-colour forms alone, cut short, and
\* with a code before or after them, and the truecolor forms.
SgrCodes == {0, 1, 22, 31, 39, 41, 49, 91, 7}
SgrIndices == {0, 1, 196}
TrueColourValues == {0, 1, 41, 255}

SgrSequences ==
  {<<>>}
    \cup {<<a>> : a \in SgrCodes}
    \cup {<<a, b>> : a \in SgrCodes, b \in SgrCodes}
    \cup {<<sel, 5, n>> : sel \in {38, 48}, n \in SgrIndices}
    \cup {<<sel, 5, n, a>> : sel \in {38, 48}, n \in SgrIndices, a \in {0, 1, 41}}
    \cup {<<a, sel, 5, n>> : a \in {1, 31}, sel \in {38, 48}, n \in SgrIndices}
    \cup {<<38>>, <<48>>, <<38, 5>>, <<48, 5>>, <<38, 7>>, <<38, 1, 1>>}
    \cup {<<sel, 2, r, gr, b>> : sel \in {38, 48}, r \in TrueColourValues,
                                gr \in TrueColourValues, b \in TrueColourValues}

InitSgr == InitGrid(<<1, 2>>)

SgrEvent ==
  \E pr \in SgrSequences :
    /\ panic = "none"
    /\ steps < MaxSgrSteps
    /\ \E o \in Outcomes(CsiDispatch(Self, pr, <<>>, "m")) :
         Commit(o, Ev("csi", "m", pr, <<>>))
    /\ UNCHANGED widget_vars
    /\ UNCHANGED session_vars

SgrPrint ==
  \E c \in Chars :
    /\ panic = "none"
    /\ steps < MaxSgrSteps
    /\ Deliver(PrintChar(Self, c), Ev("print", c, <<>>, <<>>))

NextSgr ==
  \/ SgrEvent
  \/ SgrPrint

SpecSgr == InitSgr /\ [][NextSgr]_vars

\* ------------------------------------------------ Terminal: the keyboard
\* Terminal::new creates the grid with these sizes.
InitialRows == 24
InitialCols == 80

\* winit's logical keys: Key::Named(name), Key::Character(text) with the text
\* as its code points, and the other kinds (Unidentified, Dead).
Named(n) == [kind |-> "Named", name |-> n, text |-> <<>>]
Character(t) == [kind |-> "Character", name |-> "", text |-> t]
OtherKey == [kind |-> "Unidentified", name |-> "", text |-> <<>>]

\* The bytes of one char in a str (UTF-8).
Utf8Char(cp) ==
  IF cp < 128 THEN <<cp>>
  ELSE IF cp < 2048 THEN <<192 + (cp \div 64), 128 + (cp % 64)>>
  ELSE IF cp < 65536
    THEN <<224 + (cp \div 4096), 128 + ((cp \div 64) % 64), 128 + (cp % 64)>>
  ELSE <<240 + (cp \div 262144), 128 + ((cp \div 4096) % 64),
         128 + ((cp \div 64) % 64), 128 + (cp % 64)>>

\* str::as_bytes
RECURSIVE AsBytes(_)
AsBytes(text) ==
  IF text = <<>> THEN <<>> ELSE Utf8Char(Head(text)) \o AsBytes(Tail(text))

\* Terminal::write_to_pty on the writer the widget shares with the grid.
WriteToPty(g, data) == WriteAll(g, data)

\* An arm of the match that writes data, and the default arm.
Arm(data) == [arm |-> TRUE, data |-> data]
NoArm == [arm |-> FALSE, data |-> <<>>]

\* Mutant of NamedKeyBytes: the arrows carry the Shift modifier as xterm does.
NamedKeyBytesShifted(name, modifiers) ==
  CASE name = "Enter" -> Arm(<<13>>)
    [] name = "Backspace" -> Arm(<<127>>)
    [] name = "Tab" -> Arm(<<9>>)
    [] name = "Escape" -> Arm(<<27>>)
    [] name = "ArrowUp" ->
         IF modifiers.shift THEN Arm(<<27, 91, 49, 59, 50, 65>>)
         ELSE Arm(<<27, 91, 65>>)
    [] name = "ArrowDown" -> Arm(<<27, 91, 66>>)
    [] name = "ArrowRight" -> Arm(<<27, 91, 67>>)
    [] name = "ArrowLeft" -> Arm(<<27, 91, 68>>)
    [] name = "Home" -> Arm(<<27, 91, 72>>)
    [] name = "End" -> Arm(<<27, 91, 70>>)
    [] name = "Delete" -> Arm(<<27, 91, 51, 126>>)
    [] name = "PageUp" -> Arm(<<27, 91, 53, 126>>)
    [] name = "PageDown" -> Arm(<<27, 91, 54, 126>>)
    [] OTHER -> NoArm

\* The named-key arms of the match in handle_key_event: the bytes written,
\* or NoArm for a named key the match leaves to its default arm.
NamedKeyBytes(name, modifiers) ==
  CASE name = "Enter" -> Arm(<<13>>)
    [] name = "Backspace" -> Arm(<<127>>)
    [] name = "Tab" -> Arm(<<9>>)
    [] name = "Escape" -> Arm(<<27>>)
    [] name = "ArrowUp" -> Arm(<<27, 91, 65>>)
    [] name = "ArrowDown" -> Arm(<<27, 91, 66>>)
    [] name = "ArrowRight" -> Arm(<<27, 91, 67>>)
    [] name = "ArrowLeft" -> Arm(<<27, 91, 68>>)
    [] name = "Home" -> Arm(<<27, 91, 72>>)
    [] name = "End" -> Arm(<<27, 91, 70>>)
    [] name = "Delete" -> Arm(<<27, 91, 51, 126>>)
    [] name = "PageUp" -> Arm(<<27, 91, 53, 126>>)
    [] name = "PageDown" -> Arm(<<27, 91, 54, 126>>)
    [] OTHER -> NoArm

\* Terminal::handle_key_event(&mut self, event, modifiers): the grid after
\* it (only the write end can have changed) and the value returned. foc is
\* self.focus.
HandleKeyEvent(g, foc, key, state, modifiers) ==
  LET ch == IF key.text = <<>> THEN 0 ELSE Head(key.text)
      wrote(data) == [g |-> WriteToPty(g, data), handled |-> TRUE]
      ignored == [g |-> g, handled |-> FALSE]
  IN
  IF state # "Pressed" THEN ignored
  ELSE IF modifiers.control /\ key.kind = "Character" /\ ch >= 97 /\ ch <= 122
    THEN wrote(<<U8(ch) - 97 + 1>>)
  ELSE IF modifiers.control /\ key.kind = "Character" /\ ch >= 65 /\ ch <= 90
    THEN wrote(<<U8(ch) - 65 + 1>>)
  ELSE IF key.kind = "Named"
    THEN IF NamedKeyBytes(key.name, modifiers).arm
         THEN wrote(NamedKeyBytes(key.name, modifiers).data)
         ELSE ignored
  ELSE IF key.kind = "Character" THEN wrote(AsBytes(key.text))
  ELSE ignored

\* ModifiersState: control_key(), shift_key(), alt_key(), super_key().
Mods(c, sh, a, su) == [control |-> c, shift |-> sh, alt |-> a, super |-> su]

Modifiers ==
  {Mods(FALSE, FALSE, FALSE, FALSE), Mods(TRUE, FALSE, FALSE, FALSE),
   Mods(FALSE, TRUE, FALSE, FALSE), Mods(FALSE, FALSE, TRUE, TRUE),
   Mods(TRUE, TRUE, TRUE, TRUE)}

NamedKeys ==
  {"Enter", "Backspace", "Tab", "Escape", "ArrowUp", "ArrowDown",
   "ArrowRight", "ArrowLeft", "Home", "End", "Delete", "PageUp", "PageDown",
   "Space", "F1"}

\* Character keys: a, Z, 1, e-acute (two bytes), the euro sign (three bytes).
Texts == {<<97>>, <<90>>, <<49>>, <<233>>, <<8364>>}

Keys == {Named(n) : n \in NamedKeys} \cup {Character(t) : t \in Texts}
          \cup {OtherKey}

\* Key events: every key pressed under every modifier state, and releases.
KeyInputs ==
  {<<k, "Pressed", m>> : k \in Keys, m \in Modifiers}
    \cup {<<k, "Released", m>> :
            k \in {Named("ArrowUp"), Character(<<97>>)},
            m \in {Mods(FALSE, FALSE, FALSE, FALSE),
                   Mods(TRUE, FALSE, FALSE, FALSE)}}

\* The UI thread delivers a key event to the widget.
KeyEvent ==
  \E x \in KeyInputs :
    /\ steps < MaxSteps
    /\ keys < MaxKeys
    /\ LET r == HandleKeyEvent(Self, focus, x[1], x[2], x[3]) IN
         /\ Commit(r.g, Ev("key", x[1], x[3], x[2]))
         /\ handled' = r.handled
    /\ keys' = keys + 1
    /\ UNCHANGED <<write_end, focus>>
    /\ UNCHANGED session_vars

\* Widget::set_focus
SetFocus ==
  \E focused \in BOOLEAN :
    /\ focused # focus
    /\ focus' = focused
    /\ UNCHANGED <<cells, rows, cols, cursor_row, cursor_col, current_fg,
                   current_bg, current_bold, scroll_top, scroll_bottom,
                   pty_writer, pty_out, panic, last, steps,
                   write_end, handled, keys>>
    /\ UNCHANGED session_vars

\* The environment: from now on write_all and flush on the write end return
\* an error (the child has exited).
WriteEndBreaks ==
  /\ write_end = "open"
  /\ write_end' = "broken"
  /\ UNCHANGED <<cells, rows, cols, cursor_row, cursor_col, current_fg,
                 current_bg, current_bold, scroll_top, scroll_bottom,
                 pty_writer, pty_out, panic, last, steps,
                 focus, handled, keys>>
  /\ UNCHANGED session_vars

\* The widget as Terminal::new leaves it, receiving key events while the
\* reader loop prints into the grid and answers device-status queries.
InitKeys == InitGrid(<<InitialRows, InitialCols>>)

NextKeys ==
  \/ KeyEvent
  \/ SetFocus
  \/ WriteEndBreaks
  \/ PrintEvent
  \/ CsiDsr

SpecKeys == InitKeys /\ [][NextKeys]_vars

\* ------------------------------------------------------ the vte parser
\* vte::Parser, the state machine that turns the bytes of a read into calls
\* on the grid: print, execute, csi_dispatch, esc_dispatch and the string
\* callbacks (which the grid leaves empty). Its state lives across reads.
\* The printable ASCII characters, from byte 32 (three of them by name).
AsciiTable ==
  <<" ", "!", "dquote", "#", "$", "%", "&", "'", "(", ")", "*", "+", ",", "-",
    ".", "/", "0", "1", "2", "3", "4", "5", "6", "7", "8", "9", ":", ";",
    "<", "=", ">", "?", "@", "A", "B", "C", "D", "E", "F", "G", "H", "I",
    "J", "K", "L", "M", "N", "O", "P", "Q", "R", "S", "T", "U", "V", "W",
    "X", "Y", "Z", "[", "backslash", "]", "^", "_", "backtick", "a", "b", "c", "d", "e",
    "f", "g", "h", "i", "j", "k", "l", "m", "n", "o", "p", "q", "r", "s",
    "t", "u", "v", "w", "x", "y", "z", "{", "|", "}", "~">>

Chr(b) == IF b >= 32 /\ b <= 126 THEN AsciiTable[b - 31] ELSE "?"

\* The character of a completed UTF-8 sequence (the model prints one name
\* for every non-ASCII character).
Utf8Decoded(bytes) == "non-ascii"

IsC0(b) == b < 32 /\ b # 27

\* One byte through the parser: the parser after it, the grid after the call
\* it caused (if any) and whether a call was made.
AdvanceByte(ps, g, b) ==
  LET stay(p2) == [parser |-> p2, g |-> g, called |-> FALSE]
      call(p2, g2) == [parser |-> p2, g |-> g2, called |-> TRUE]
      ground == [ParserNew EXCEPT !.state = "ground"]
      escape == [ParserNew EXCEPT !.state = "escape"]
  IN
  IF ps.utf8 # <<>> /\ b >= 128 /\ b <= 191
  THEN IF Len(ps.utf8) + 1 = ps.need
       THEN call(ground, PrintChar(g, Utf8Decoded(Append(ps.utf8, b))))
       ELSE stay([ps EXCEPT !.utf8 = Append(@, b)])
  ELSE IF b = 27 THEN stay(escape)
  ELSE IF IsC0(b) /\ ps.state # "string" THEN call(ps, Execute(g, b))
  ELSE
    CASE ps.state = "ground" ->
           IF b >= 32 /\ b <= 127 THEN call(ground, PrintChar(g, Chr(b)))
           ELSE IF b >= 194 /\ b <= 223
             THEN stay([ground EXCEPT !.utf8 = <<b>>, !.need = 2])
           ELSE IF b >= 224 /\ b <= 239
             THEN stay([ground EXCEPT !.utf8 = <<b>>, !.need = 3])
           ELSE IF b >= 240 /\ b <= 244
             THEN stay([ground EXCEPT !.utf8 = <<b>>, !.need = 4])
           ELSE call(ground, PrintChar(g, Utf8Decoded(<<b>>)))
      [] ps.state = "escape" ->
           IF b = 91 THEN stay([ParserNew EXCEPT !.state = "csi"])
           ELSE IF b \in {80, 88, 93, 94, 95}
             THEN stay([ParserNew EXCEPT !.state = "string"])
           ELSE IF b >= 32 /\ b <= 47
             THEN stay([ps EXCEPT !.inter = Append(@, Chr(b))])
           ELSE IF b >= 48 /\ b <= 126
             THEN call(ground, EscDispatch(g, Chr(b)))
           ELSE stay(ps)
      [] ps.state = "csi" ->
           IF b >= 48 /\ b <= 57
             THEN stay([ps EXCEPT !.param = Min(@ * 10 + (b - 48), 65535)])
           ELSE IF b = 59
             THEN stay([ps EXCEPT !.params = Append(@, ps.param), !.param = 0])
           ELSE IF (b >= 32 /\ b <= 47) \/ (b >= 60 /\ b <= 63)
             THEN stay([ps EXCEPT !.inter = Append(@, Chr(b))])
           ELSE IF b >= 64 /\ b <= 126
             THEN call(ground,
                       CsiDispatch(g, Append(ps.params, ps.param), ps.inter,
                                   Chr(b)))
           ELSE stay(ps)
      [] ps.state = "string" ->
           IF b = 7 THEN stay(ground) ELSE stay(ps)

\* Parser::advance up to the next call on the grid or to the end of the
\* buffer: the parser, the grid and the bytes left.
RECURSIVE AdvanceToCall(_, _, _)
AdvanceToCall(ps, g, buf) ==
  IF buf = <<>> THEN [parser |-> ps, g |-> g, buf |-> buf]
  ELSE LET r == AdvanceByte(ps, g, Head(buf)) IN
       IF r.called THEN [parser |-> r.parser, g |-> r.g, buf |-> Tail(buf)]
       ELSE AdvanceToCall(r.parser, g, Tail(buf))

\* Parser::advance(&mut grid, bytes)
RECURSIVE Advance(_, _, _)
Advance(ps, g, bytes) ==
  IF bytes = <<>> THEN [parser |-> ps, g |-> g]
  ELSE LET r == AdvanceByte(ps, g, Head(bytes)) IN
       Advance(r.parser, r.g, Tail(bytes))

\* ------------------------------------------- Terminal: the PTY session
\* The UI thread (key events, render passes, layout, drop of the widget),
\* the reader thread of spawn_pty and the child process on the slave side.
\* What the child writes at a time: CSI 6 n, and e-acute (two bytes of
\* UTF-8) followed by CSI 6 n.
Chunks == {<<27, 91, 54, 110>>, <<195, 169, 27, 91, 54, 110>>}
SessionKeys == {Named("ArrowUp")}
LayoutSizes == {<<InitialRows, InitialCols>>, <<10, 40>>}

\* Mutant of MutexFree: lock() never waits for the holder.
MutexNeverHeld(lock) == TRUE

\* Mutex::lock returns once no other thread holds the mutex.
MutexFree(lock) == lock = "free"

\* write_all blocks while the PTY's input buffer is full: the child has not
\* read what was written before.
PtyAccepts == pty.pending < PtyCapacity

\* The data of the write_to_pty call handle_key_event makes, if any.
KeyWrites(key, state, modifiers) ==
  HandleKeyEvent([Self EXCEPT !.pty_out = <<>>, !.write_end = "open"],
                 focus, key, state, modifiers).g.pty_out

\* The response csi_dispatch writes for CSI 6 n.
DsrWrites ==
  CsiDispatch([Self EXCEPT !.pty_out = <<>>, !.write_end = "open"],
              <<6>>, <<>>, "n").pty_out

GridUnchanged ==
  UNCHANGED <<cells, rows, cols, cursor_row, cursor_col, current_fg,
              current_bg, current_bold, scroll_top, scroll_bottom,
              pty_writer, panic, steps>>

\* ---- UI thread
\* handle_key_event up to the lock() of write_to_pty.
KeyPress ==
  \E key \in SessionKeys :
    LET w == KeyWrites(key, "Pressed", Mods(FALSE, FALSE, FALSE, FALSE)) IN
    /\ ui.pc = "idle"
    /\ keys < MaxKeys
    /\ keys' = keys + 1
    /\ IF w = <<>>
       THEN handled' = FALSE /\ ui' = ui
       ELSE handled' = handled
            /\ ui' = [pc |-> "key_lock", data |-> w[1], sent |-> 0]
    /\ GridUnchanged
    /\ UNCHANGED <<pty_out, last, write_end, focus, grid_lock, writer_lock,
                   reader, pty, wire, layout>>

KeyLock ==
  /\ ui.pc = "key_lock"
  /\ MutexFree(writer_lock)
  /\ writer_lock' = "ui"
  /\ ui' = [ui EXCEPT !.pc = "key_write"]
  /\ GridUnchanged
  /\ UNCHANGED <<pty_out, last, write_end, focus, handled, keys, grid_lock,
                 reader, pty, wire, layout>>

\* One byte of write_all reaches the PTY.
KeyWrite ==
  /\ ui.pc = "key_write"
  /\ write_end = "open"
  /\ ui.sent < Len(ui.data)
  /\ PtyAccepts
  /\ wire' = Append(wire, ui.data[ui.sent + 1])
  /\ pty' = [pty EXCEPT !.pending = @ + 1]
  /\ ui' = [ui EXCEPT !.sent = @ + 1]
  /\ GridUnchanged
  /\ UNCHANGED <<pty_out, last, write_end, focus, handled, keys, grid_lock,
                 writer_lock, reader, layout>>

\* write_all has written everything or has failed; the guard is dropped and
\* handle_key_event returns true.
KeyReturn ==
  /\ ui.pc = "key_write"
  /\ write_end = "broken" \/ ui.sent = Len(ui.data)
  /\ pty_out' = IF ui.sent = Len(ui.data) THEN Append(pty_out, ui.data)
                ELSE pty_out
  /\ writer_lock' = "free"
  /\ handled' = TRUE
  /\ ui' = [pc |-> "idle", data |-> <<>>, sent |-> 0]
  /\ GridUnchanged
  /\ UNCHANGED <<last, write_end, focus, keys, grid_lock, reader, pty, wire,
                 layout>>

\* A layout pass measures the widget's rectangle.
LayoutPass ==
  \E size \in LayoutSizes :
    /\ ui.pc = "idle"
    /\ size # layout
    /\ layout' = size
    /\ GridUnchanged
    /\ UNCHANGED <<pty_out, last, write_end, focus, handled, keys, grid_lock,
                   writer_lock, ui, reader, pty, wire>>

\* Terminal::draw: self.grid.lock(), a read-only pass over the cells, and the
\* guard dropped at the end.
DrawRequest ==
  /\ ui.pc = "idle"
  /\ ui' = [ui EXCEPT !.pc = "draw_lock"]
  /\ GridUnchanged
  /\ UNCHANGED <<pty_out, last, write_end, focus, handled, keys, grid_lock,
                 writer_lock, reader, pty, wire, layout>>

DrawLock ==
  /\ ui.pc = "draw_lock"
  /\ MutexFree(grid_lock)
  /\ grid_lock' = "ui"
  /\ ui' = [ui EXCEPT !.pc = "draw"]
  /\ GridUnchanged
  /\ UNCHANGED <<pty_out, last, write_end, focus, handled, keys,
                 writer_lock, reader, pty, wire, layout>>

DrawDone ==
  /\ ui.pc = "draw"
  /\ grid_lock' = "free"
  /\ ui' = [ui EXCEPT !.pc = "idle"]
  /\ GridUnchanged
  /\ UNCHANGED <<pty_out, last, write_end, focus, handled, keys,
                 writer_lock, reader, pty, wire, layout>>

\* The Terminal value is dropped: there is no Drop impl, the reader thread is
\* detached and keeps its own handles.
DropTerminal ==
  /\ ui.pc = "idle"
  /\ ui' = [ui EXCEPT !.pc = "dropped"]
  /\ GridUnchanged
  /\ UNCHANGED <<pty_out, last, write_end, focus, handled, keys, grid_lock,
                 writer_lock, reader, pty, wire, layout>>

\* ---- reader thread
\* The thread owns the slave handle (_slave) until it ends.
SlaveHeldByReader == reader.pc # "done"

\* The master's read end reports end of stream once the child has exited,
\* its output has been read and no handle to the slave side is open.
EofSignalled ==
  /\ pty.child = "exited"
  /\ pty.output = <<>>
  /\ ~SlaveHeldByReader

\* Mutant of ParserKept: every read starts with a new parser.
ParserRestarted(parser) == ParserNew

\* The parser is created once, before the loop: a read finds it as the
\* previous advance left it.
ParserKept(parser) == parser

\* reader.read(&mut buf) returns Ok(n), n > 0, with the first n bytes the
\* child has written and the loop has not read yet.
Read(n) ==
  /\ reader.pc = "read"
  /\ reader' = [reader EXCEPT !.pc = "lock",
                              !.buf = SubSeq(pty.output, 1, n),
                              !.seen = @ \o SubSeq(pty.output, 1, n),
                              !.parser = ParserKept(@)]
  /\ pty' = [pty EXCEPT !.output = SubSeq(@, n + 1, Len(@))]
  /\ GridUnchanged
  /\ UNCHANGED <<pty_out, last, write_end, focus, handled, keys, grid_lock,
                 writer_lock, ui, wire, layout>>

\* The read returns everything available.
ReaderRead ==
  /\ pty.output # <<>>
  /\ Read(Len(pty.output))

\* The read returns a part of what is available.
ReaderReadPart ==
  \E n \in 1..(Len(pty.output) - 1) : Read(n)

\* reader.read returns Ok(0) or Err(_): the loop is left. An error can be
\* returned at any time (the read is not retried when it is interrupted).
ReaderReadEnds ==
  \E cause \in {"eof", "error"} :
    /\ reader.pc = "read"
    /\ cause = "eof" => EofSignalled
    /\ reader' = [reader EXCEPT !.pc = "wait"]
    /\ GridUnchanged
    /\ UNCHANGED <<pty_out, last, write_end, focus, handled, keys, grid_lock,
                   writer_lock, ui, pty, wire, layout>>

\* let mut g = grid.lock().unwrap();
ReaderLock ==
  /\ reader.pc = "lock"
  /\ MutexFree(grid_lock)
  /\ grid_lock' = "reader"
  /\ reader' = [reader EXCEPT !.pc = "parse"]
  /\ GridUnchanged
  /\ UNCHANGED <<pty_out, last, write_end, focus, handled, keys,
                 writer_lock, ui, pty, wire, layout>>

\* parser.advance goes on to its next call on the grid, or to the end of the
\* buffer. A call that answers CSI 6 n goes on to lock the writer.
ReaderAdvance ==
  LET r == AdvanceToCall(reader.parser,
                         [Self EXCEPT !.pty_out = <<>>, !.write_end = "open"],
                         reader.buf)
      answers == r.g.pty_out # <<>>
  IN
  /\ reader.pc = "parse"
  /\ reader.buf # <<>>
  /\ Commit([r.g EXCEPT !.pty_out = pty_out, !.write_end = write_end], last)
  /\ reader' = [reader EXCEPT
                  !.pc = IF answers THEN "dsr_lock" ELSE "parse",
                  !.buf = r.buf, !.parser = r.parser,
                  !.data = IF answers THEN r.g.pty_out[1] ELSE <<>>,
                  !.sent = 0]
  /\ UNCHANGED <<write_end, focus, handled, keys, grid_lock, writer_lock, ui,
                 pty, wire, layout>>

DsrLock ==
  /\ reader.pc = "dsr_lock"
  /\ MutexFree(writer_lock)
  /\ writer_lock' = "reader"
  /\ reader' = [reader EXCEPT !.pc = "dsr_write"]
  /\ GridUnchanged
  /\ UNCHANGED <<pty_out, last, write_end, focus, handled, keys, grid_lock,
                 ui, pty, wire, layout>>

DsrWrite ==
  /\ reader.pc = "dsr_write"
  /\ write_end = "open"
  /\ reader.sent < Len(reader.data)
  /\ PtyAccepts
  /\ wire' = Append(wire, reader.data[reader.sent + 1])
  /\ pty' = [pty EXCEPT !.pending = @ + 1]
  /\ reader' = [reader EXCEPT !.sent = @ + 1]
  /\ GridUnchanged
  /\ UNCHANGED <<pty_out, last, write_end, focus, handled, keys, grid_lock,
                 writer_lock, ui, layout>>

DsrDone ==
  /\ reader.pc = "dsr_write"
  /\ write_end = "broken" \/ reader.sent = Len(reader.data)
  /\ pty_out' = IF reader.sent = Len(reader.data)
                THEN Append(pty_out, reader.data) ELSE pty_out
  /\ writer_lock' = "free"
  /\ reader' = [reader EXCEPT !.pc = "parse", !.data = <<>>, !.sent = 0]
  /\ GridUnchanged
  /\ UNCHANGED <<last, write_end, focus, handled, keys, grid_lock, ui, pty,
                 wire, layout>>

\* The buffer is parsed: the guard g is dropped and the loop reads again.
ReaderUnlock ==
  /\ reader.pc = "parse"
  /\ reader.buf = <<>>
  /\ grid_lock' = "free"
  /\ reader' = [reader EXCEPT !.pc = "read"]
  /\ GridUnchanged
  /\ UNCHANGED <<pty_out, last, write_end, focus, handled, keys,
                 writer_lock, ui, pty, wire, layout>>

\* let _ = child.wait(); then the thread ends and drops what it owns.
ReaderReaps ==
  /\ reader.pc = "wait"
  /\ pty.child = "exited"
  /\ reader' = [reader EXCEPT !.pc = "done"]
  /\ GridUnchanged
  /\ UNCHANGED <<pty_out, last, write_end, focus, handled, keys, grid_lock,
                 writer_lock, ui, pty, wire, layout>>

\* ---- the child process
ChildWrites ==
  \E chunk \in Chunks :
    /\ pty.child = "running"
    /\ pty.emitted < MaxOutput
    /\ pty' = [pty EXCEPT !.output = @ \o chunk, !.emitted = @ + 1]
    /\ GridUnchanged
    /\ UNCHANGED <<pty_out, last, write_end, focus, handled, keys, grid_lock,
                   writer_lock, ui, reader, wire, layout>>

ChildReads ==
  /\ pty.child = "running"
  /\ pty.pending > 0
  /\ pty' = [pty EXCEPT !.pending = 0]
  /\ GridUnchanged
  /\ UNCHANGED <<pty_out, last, write_end, focus, handled, keys, grid_lock,
                 writer_lock, ui, reader, wire, layout>>

ChildExits ==
  /\ pty.child = "running"
  /\ pty' = [pty EXCEPT !.child = "exited"]
  /\ GridUnchanged
  /\ UNCHANGED <<pty_out, last, write_end, focus, handled, keys, grid_lock,
                 writer_lock, ui, reader, wire, layout>>

InitSession == InitGrid(<<InitialRows, InitialCols>>)

UiStep ==
  \/ KeyPress
  \/ KeyLock
  \/ KeyWrite
  \/ KeyReturn
  \/ DrawRequest
  \/ DrawLock
  \/ DrawDone

\* The loop of the reader thread, and the thread with what follows the loop.
ReaderLoop ==
  \/ ReaderRead
  \/ ReaderLock
  \/ ReaderAdvance
  \/ DsrLock
  \/ DsrWrite
  \/ DsrDone
  \/ ReaderUnlock

ReaderStep ==
  \/ ReaderLoop
  \/ ReaderReaps

NextSession ==
  \/ UiStep
  \/ ReaderStep
  \/ ReaderReadEnds
  \/ ChildWrites
  \/ ChildReads
  \/ ChildExits

SpecSession == InitSession /\ [][NextSession]_vars

\* The threads keep running: a step of the UI thread or of the reader thread
\* that stays possible is eventually taken (a lock that stays free is
\* acquired, a write the PTY accepts proceeds). Nothing obliges the user to
\* press keys, the child to write, to read its input or to exit, or a read to
\* fail.
UiProgress ==
  \/ KeyLock
  \/ KeyWrite
  \/ KeyReturn
  \/ DrawLock
  \/ DrawDone

SessionFairness == WF_vars(UiProgress) /\ WF_vars(ReaderStep)

SpecSessionFair == SpecSession /\ SessionFairness

\* The reader loop with reads of any size, the UI thread rendering and
\* writing keys meanwhile; the child only writes.
NextReader ==
  \/ UiStep
  \/ ReaderLoop
  \/ ReaderReadPart
  \/ ChildWrites

SpecReader == InitSession /\ [][NextReader]_vars

\* ---- the life of the widget
\* Who holds the Arc of the grid, and who the Arc of the write end: the
\* Terminal value until it is dropped, the reader thread (its grid clone)
\* until it ends, and the grid itself (pty_writer) while it is alive.
GridOwners ==
  (IF ui.pc # "dropped" THEN {"terminal"} ELSE {})
    \cup (IF reader.pc # "done" THEN {"reader"} ELSE {})

WriterOwners ==
  (IF ui.pc # "dropped" THEN {"terminal"} ELSE {})
    \cup (IF GridOwners # {} /\ pty_writer THEN {"grid"} ELSE {})

\* The widget is measured, rendered and finally dropped while the reader
\* thread and the child run.
UiRender ==
  \/ DrawRequest
  \/ DrawLock
  \/ DrawDone

NextLifecycle ==
  \/ LayoutPass
  \/ UiRender
  \/ DropTerminal
  \/ ReaderStep
  \/ ReaderReadEnds
  \/ ChildWrites
  \/ ChildReads
  \/ ChildExits

SpecLifecycle == InitSession /\ [][NextLifecycle]_vars

\* The event loop keeps rendering the widget while it exists and the reader
\* thread keeps running. Nothing obliges the container to change size, the
\* widget to be dropped, the child to write, to read or to exit, or a read
\* to fail.
LifecycleFairness == WF_vars(UiRender) /\ WF_vars(ReaderStep)

SpecLifecycleFair == SpecLifecycle /\ LifecycleFairness

\* The widget is measured and rendered for ever: it is not dropped, the
\* child stays alive and reads what is written to it.
NextLayout ==
  \/ LayoutPass
  \/ UiRender
  \/ ReaderLoop
  \/ ChildWrites
  \/ ChildReads

SpecLayout == InitSession /\ [][NextLayout]_vars

LayoutFairness ==
  WF_vars(UiRender) /\ WF_vars(ReaderLoop) /\ WF_vars(ChildReads)

SpecLayoutFair == SpecLayout /\ LayoutFairness

\* ================================================================ claims

\* C1: whatever events and resizes are applied, no handler panics. The
\* statement fails on the colour lookup: CSI 48;5;257 m overflows the u8
\* arithmetic of the grey ramp, which panics in an overflow-checked build.
C1_NoPanic == panic = "none"

\* C1, index part: no handler accesses the row list or a row out of range
\* (no remove, insert or index position beyond the current length). This
\* part holds in every reachable state.
C1_NoIndexOutOfRange == panic # "index"

\* C1 witness: delete-lines has run with the cursor below the bottom of the
\* scroll region, where the insert position is min(scroll_bottom, len).
C1_Witness ==
  /\ last.kind = "csi" /\ last.code = "M" /\ last.inter = <<>>
  /\ cursor_row > scroll_bottom
  /\ panic = "none"

\* C2: the cursor stays on the grid, 0 <= cursor_row < rows and
\* 0 <= cursor_col <= cols, and cursor_col = cols arises only from a print
\* (into the last column): a step that ends with cursor_col = cols is either a
\* print or a step that changed neither cursor_col nor cols.
C2_CursorInRange ==
  /\ 0 <= cursor_row /\ cursor_row < rows
  /\ 0 <= cursor_col /\ cursor_col <= cols

C2_PendingWrapStep ==
  cursor_col' = cols' =>
    \/ /\ last'.kind = "print"
       /\ cols' = cols
       /\ cells'[cursor_row' + 1][cols'].ch \in Chars
    \/ /\ cursor_col' = cursor_col
       /\ cols' = cols

C2_Cursor == []C2_CursorInRange /\ [][C2_PendingWrapStep]_vars

\* C2 witness: a print into the last column of a grid of two columns has left
\* the cursor at cursor_col = cols.
C2_Witness ==
  /\ last.kind = "print"
  /\ cols = 2 /\ cursor_col = cols
  /\ cells[cursor_row + 1][cols].ch \in Chars

\* C3: the scroll region is always ordered and on the grid,
\* 0 <= scroll_top <= scroll_bottom < rows.
C3_ScrollRegionOrdered ==
  /\ 0 <= scroll_top
  /\ scroll_top <= scroll_bottom
  /\ scroll_bottom < rows

\* C4: the matrix always has exactly rows rows of exactly cols cells.
C4_MatrixShape ==
  /\ Len(cells) = rows
  /\ \A i \in 1..Len(cells) : Len(cells[i]) = cols

\* C4 witness: insert-characters has run with the cursor past the last
\* column (cursor_col = cols) on a row that holds a printed character.
C4_Witness ==
  /\ last.kind = "csi" /\ last.code = "@" /\ last.inter = <<>>
  /\ cursor_col = cols
  /\ \E j \in 1..cols : cells[cursor_row + 1][j].ch \in Chars

\* The grid fields a handler can assign, and the parts the claims name.
Cursor == <<cursor_row, cursor_col>>
Region == <<scroll_top, scroll_bottom>>
Pending == <<current_fg, current_bg, current_bold>>
Shape == <<rows, cols>>

\* The cell a print writes: a character with the pending attributes.
Printed(cell) ==
  /\ cell.ch \in Chars
  /\ cell.fg = current_fg /\ cell.bg = current_bg /\ cell.bold = current_bold

\* The rows after the region scroll_top..scroll_bottom has scrolled up by one.
ScrolledUp ==
  [i \in 1..rows |->
     IF scroll_top <= i - 1 /\ i - 1 < scroll_bottom THEN cells[i + 1]
     ELSE IF i - 1 = scroll_bottom THEN BlankRow(cols)
     ELSE cells[i]]

\* C5: a print that follows a print into the last column wraps: afterwards
\* cursor_col = 1 and the character is at column 0 of the cursor's row; off
\* scroll_bottom that row is the next row, on scroll_bottom the region has
\* scrolled up by one (blank row at scroll_bottom) before the write.
C5_SecondPrint ==
  /\ last.kind = "print" /\ cursor_col = cols
  /\ scroll_top <= scroll_bottom
  /\ last'.kind = "print" /\ panic' = "none"

C5_Wrapped ==
  /\ cursor_col' = 1
  /\ Printed(cells'[cursor_row' + 1][1])
  /\ IF cursor_row # scroll_bottom
     THEN cursor_row' = cursor_row + 1
     ELSE /\ cursor_row' = cursor_row
          /\ \A i \in 1..rows : \A j \in 1..cols :
               <<i, j>> # <<cursor_row' + 1, 1>> => cells'[i][j] = ScrolledUp[i][j]

C5_WrapOnSecondPrint == [][C5_SecondPrint => C5_Wrapped]_vars

\* C6: a line feed with the cursor on scroll_bottom scrolls the region up by
\* one, for every ordered region (a one-row region too), and moves nothing
\* else; off scroll_bottom, with a row below, it only increments cursor_row.
C6_LineFeed ==
  /\ last'.kind = "execute" /\ last'.params = <<10>>
  /\ scroll_top <= scroll_bottom /\ scroll_bottom < rows

C6_Effect ==
  /\ UNCHANGED <<Shape, Region, Pending, cursor_col, pty_out>>
  /\ IF cursor_row = scroll_bottom
     THEN cells' = ScrolledUp /\ cursor_row' = cursor_row
     ELSE IF cursor_row + 1 < rows
     THEN cells' = cells /\ cursor_row' = cursor_row + 1
     ELSE TRUE

C6_LineFeedScrolls == [][C6_LineFeed => C6_Effect]_vars

\* C7: CSI 2 J and CSI 3 J make every cell the default cell and leave the
\* cursor, the scroll region and the pending attributes as they were.
C7_EraseAll ==
  /\ last'.kind = "csi" /\ last'.code = "J" /\ last'.inter = <<>>
  /\ last'.params \in {<<2>>, <<3>>}

C7_Erased ==
  /\ \A i \in 1..rows : \A j \in 1..cols : cells'[i][j] = DefaultCell
  /\ UNCHANGED <<Shape, Cursor, Region, Pending>>

C7_EraseScreen == [][C7_EraseAll => C7_Erased]_vars

\* C7 witness: CSI 2 J has run with the cursor past the last column of a row
\* that a bold print had filled; the grid is blank and bold is still pending.
C7_Witness ==
  /\ last.kind = "csi" /\ last.code = "J" /\ last.params = <<2>>
  /\ last.inter = <<>>
  /\ cursor_col = cols /\ current_bold
  /\ \A i \in 1..rows : \A j \in 1..cols : cells[i][j] = DefaultCell

\* C8: CSI 6 n appends exactly one write to the PTY write end, the bytes
\* ESC [ <cursor_row + 1> ; <cursor_col + 1> R in decimal, and changes nothing
\* in the grid; print, execute, ESC, resize, every other CSI final byte,
\* CSI n with another parameter and CSI ? 6 n write nothing.
IsNumber(ds) ==
  /\ Len(ds) >= 1
  /\ \A k \in 1..Len(ds) : ds[k] \in 48..57
  /\ Len(ds) > 1 => ds[1] # 48

RECURSIVE NumberValue(_)
NumberValue(ds) ==
  IF ds = <<>> THEN 0
  ELSE 10 * NumberValue(SubSeq(ds, 1, Len(ds) - 1)) + (ds[Len(ds)] - 48)

IsReport(w, r, c) ==
  /\ Len(w) >= 6
  /\ w[1] = 27 /\ w[2] = 91 /\ w[Len(w)] = 82
  /\ \E k \in 4..(Len(w) - 2) :
       LET a == SubSeq(w, 3, k - 1)
           b == SubSeq(w, k + 1, Len(w) - 1)
       IN  /\ w[k] = 59
           /\ IsNumber(a) /\ NumberValue(a) = r
           /\ IsNumber(b) /\ NumberValue(b) = c

C8_Query ==
  /\ last'.kind = "csi" /\ last'.code = "n" /\ last'.inter = <<>>
  /\ Len(last'.params) >= 1 /\ last'.params[1] = 6

C8_OtherEvent ==
  \/ last'.kind \in {"print", "execute", "esc", "resize"}
  \/ /\ last'.kind = "csi"
     /\ \/ last'.code # "n"
        \/ Contains(last'.inter, "?")
        \/ P(last'.params, 0, 0) # 6

C8_Step ==
  /\ C8_Query =>
       /\ Len(pty_out') = Len(pty_out) + 1
       /\ SubSeq(pty_out', 1, Len(pty_out)) = pty_out
       /\ IsReport(pty_out'[Len(pty_out')], cursor_row + 1, cursor_col + 1)
       /\ UNCHANGED <<cells, Shape, Cursor, Region, Pending, pty_writer, panic>>
  /\ C8_OtherEvent => pty_out' = pty_out

C8_CursorReport == [][C8_Step]_vars

\* C8 witness: CSI 6 n at row 0, column 9 has written ESC [ 1 ; 1 0 R.
C8_Witness ==
  /\ last.kind = "csi" /\ last.code = "n" /\ last.params = <<6>>
  /\ last.inter = <<>>
  /\ cursor_row = 0 /\ cursor_col = 9
  /\ pty_out = << <<27, 91, 49, 59, 49, 48, 82>> >>

\* C9: for every index n in 0..255 the colour resolved for 38;5;n and 48;5;n
\* is the reference colour: the direct SGR colour for n < 16, the 6x6x6 cube
\* with components 0 or 55 + 40 * digit for 16 <= n < 232, the grey
\* 8 + 10 * (n - 232) for n >= 232.
CubeComponent(d) == IF d = 0 THEN 0 ELSE 55 + 40 * d

DirectFg(code) == ApplySgr(TermGridNew(1, 1), <<code>>).current_fg
DirectBg(code) == ApplySgr(TermGridNew(1, 1), <<code>>).current_bg

ReferenceColour(n) ==
  IF n < 8 THEN DirectFg(30 + n)
  ELSE IF n < 16 THEN DirectFg(90 + (n - 8))
  ELSE IF n < 232 THEN
    LET idx == n - 16
    IN  <<CubeComponent(idx \div 36), CubeComponent((idx \div 6) % 6),
          CubeComponent(idx % 6)>>
  ELSE LET v == 8 + 10 * (n - 232) IN <<v, v, v>>

C9_Looked ==
  /\ last.kind = "csi" /\ last.code = "m" /\ Len(last.params) = 3
  /\ last.params[2] = 5 /\ last.params[3] <= 255
  /\ panic = "none"

C9_ColourTable ==
  C9_Looked =>
    LET n == last.params[3]
        got == IF last.params[1] = 38 THEN current_fg ELSE current_bg
    IN  /\ got = ReferenceColour(n)
        /\ n < 8 => got = DirectBg(40 + n)
        /\ n = 16 => got = <<0, 0, 0>>
        /\ n = 21 => got = <<0, 0, 255>>
        /\ n = 232 => got = <<8, 8, 8>>
        /\ n = 255 => got = <<238, 238, 238>>

\* C9 witness: 48;5;118 (cube digits 2, 5, 0) has set the background.
C9_Witness ==
  /\ last.kind = "csi" /\ last.code = "m" /\ last.params = <<48, 5, 118>>
  /\ current_bg = <<135, 255, 0>>

\* C10: resize(r, c) yields r rows of c cells, keeps the cells of the common
\* rectangle and makes every other cell default, clamps the cursor to
\* (r - 1, c - 1), resets the scroll region to 0..r-1 and leaves the pending
\* attributes alone.
C10_Resized ==
  LET r == last'.params[1]
      c == last'.params[2]
  IN  /\ rows' = r /\ cols' = c
      /\ Len(cells') = r
      /\ \A i \in 1..r :
           /\ Len(cells'[i]) = c
           /\ \A j \in 1..c :
                cells'[i][j] =
                  IF i <= rows /\ j <= cols THEN cells[i][j] ELSE DefaultCell
      /\ cursor_row' = Min(cursor_row, r - 1)
      /\ cursor_col' = Min(cursor_col, c - 1)
      /\ scroll_top' = 0 /\ scroll_bottom' = r - 1
      /\ UNCHANGED Pending

C10_ResizeEffect == [][last'.kind = "resize" => C10_Resized]_vars

\* C10 witness: resize(2, 1) has run on a grid with a printed cell at (0, 0):
\* the cell survives, the cursor is in the only column and the scroll region
\* is the whole grid, 0..1.
C10_Witness ==
  /\ last.kind = "resize" /\ last.params = <<2, 1>>
  /\ cells[1][1].ch \in Chars
  /\ cursor_col = 0 /\ cursor_row = 0
  /\ scroll_top = 0 /\ scroll_bottom = 1

\* The grid without the write end: the fields of TermGrid.
GridFields ==
  <<cells, rows, cols, cursor_row, cursor_col, current_fg, current_bg,
    current_bold, scroll_top, scroll_bottom>>

\* The writes a pressed key causes when nothing but Control is held, the
\* widget is unfocused and the grid is a fresh 1 x 1 grid.
KeyReference(key, control) ==
  HandleKeyEvent(SpawnPty(TermGridNew(1, 1)), FALSE, key, "Pressed",
                 Mods(control, FALSE, FALSE, FALSE)).g.pty_out

\* C11: the bytes a key event writes depend only on the key and on Control:
\* under any Shift/Alt/Super state, focus flag and grid state a pressed key
\* writes what the reference run writes (ArrowUp: ESC [ A), a key that is
\* not pressed writes nothing, and no key event changes the grid.
C11_KeyStep == keys' = keys + 1

C11_Pure ==
  LET key == last'.code
      control == last'.params.control
      pressed == last'.inter = "Pressed"
  IN  /\ GridFields' = GridFields
      /\ pressed /\ write_end = "open" =>
           pty_out' = pty_out \o KeyReference(key, control)
      /\ pressed /\ write_end = "open" /\ key = Named("ArrowUp") =>
           pty_out' = Append(pty_out, <<27, 91, 65>>)
      /\ ~pressed => pty_out' = pty_out /\ handled' = FALSE

C11_KeyEncodingPure == [][C11_KeyStep => C11_Pure]_vars

\* C11 witness: ArrowUp was pressed with Shift held, in the focused widget,
\* after the grid had been printed into, and ESC [ A was written.
C11_Witness ==
  /\ last.kind = "key" /\ last.code = Named("ArrowUp")
  /\ last.inter = "Pressed" /\ last.params.shift /\ ~last.params.control
  /\ focus /\ cursor_col > 0
  /\ pty_out = << <<27, 91, 65>> >>

\* The keyboard table of the statement of C12: the bytes of a pressed key.
Lower(ch) == IF ch >= 65 /\ ch <= 90 THEN ch + 32 ELSE ch
IsLetter(ch) == Lower(ch) >= 97 /\ Lower(ch) <= 122

TableKeys ==
  {Named(n) : n \in NamedKeys \ {"F1"}} \cup {Character(t) : t \in Texts}

TableBytes(key, control) ==
  IF key.kind = "Character"
  THEN IF control /\ IsLetter(Head(key.text))
       THEN <<Lower(Head(key.text)) - 97 + 1>>
       ELSE AsBytes(key.text)
  ELSE CASE key.name = "Space" -> <<32>>
         [] key.name = "Enter" -> <<13>>
         [] key.name = "Backspace" -> <<127>>
         [] key.name = "Tab" -> <<9>>
         [] key.name = "Escape" -> <<27>>
         [] key.name = "ArrowUp" -> <<27, 91, 65>>
         [] key.name = "ArrowDown" -> <<27, 91, 66>>
         [] key.name = "ArrowRight" -> <<27, 91, 67>>
         [] key.name = "ArrowLeft" -> <<27, 91, 68>>
         [] key.name = "Home" -> <<27, 91, 72>>
         [] key.name = "End" -> <<27, 91, 70>>
         [] key.name = "Delete" -> <<27, 91, 51, 126>>
         [] key.name = "PageUp" -> <<27, 91, 53, 126>>
         [] key.name = "PageDown" -> <<27, 91, 54, 126>>

\* C12: every pressed key of the keyboard table, the space bar (the named
\* key Space) included, writes exactly the table's bytes in one write and is
\* reported as handled. Fails for Space, which has no arm in the handler.
C12_TableStep ==
  /\ keys' = keys + 1
  /\ last'.inter = "Pressed"
  /\ last'.code \in TableKeys
  /\ write_end = "open"

C12_TableEffect ==
  /\ pty_out' = Append(pty_out, TableBytes(last'.code, last'.params.control))
  /\ handled' = TRUE

C12_KeyTable == [][C12_TableStep => C12_TableEffect]_vars

\* C12 without the space bar: every other key of the table writes the
\* table's bytes and is handled.
C12_TableEffectButSpace == last'.code # Named("Space") => C12_TableEffect

C12_KeyTableButSpace == [][C12_TableStep => C12_TableEffectButSpace]_vars

\* The bytes of a list of writes, in order.
RECURSIVE Flatten(_)
Flatten(writes) ==
  IF writes = <<>> THEN <<>> ELSE Head(writes) \o Flatten(Tail(writes))

UiWriting == ui.pc = "key_write"
ReaderWriting == reader.pc = "dsr_write"

\* What the write in progress has sent so far.
InProgress ==
  IF UiWriting THEN SubSeq(ui.data, 1, ui.sent)
  ELSE IF ReaderWriting THEN SubSeq(reader.data, 1, reader.sent)
  ELSE <<>>

\* C13: the UI thread and the reader loop are never both inside a write to
\* the PTY write end, and the bytes the write end has received are the
\* completed writes, whole and in order, followed by what the one write in
\* progress has sent: no response and no key sequence is split by the other.
C13_WholeWrites ==
  /\ ~(UiWriting /\ ReaderWriting)
  /\ UiWriting => writer_lock = "ui"
  /\ ReaderWriting => writer_lock = "reader"
  /\ wire = Flatten(pty_out) \o InProgress

\* C13 witness: the reader loop is in the middle of a cursor-position
\* response while the UI thread waits for the writer with a key's bytes,
\* after an earlier response went out whole.
C13_Witness ==
  /\ ReaderWriting /\ reader.sent > 0 /\ reader.sent < Len(reader.data)
  /\ ui.pc = "key_lock"
  /\ Len(pty_out) = 1

\* The fields of a grid value that make up the Grid state.
GridOf(g) ==
  <<g.cells, g.rows, g.cols, g.cursor_row, g.cursor_col, g.current_fg,
    g.current_bg, g.current_bold, g.scroll_top, g.scroll_bottom>>

\* The bytes the reader loop has parsed so far: all it has read, less what
\* is left of the current buffer.
ParsedStream == SubSeq(reader.seen, 1, Len(reader.seen) - Len(reader.buf))

\* The single-stream run: a new parser fed the whole parsed stream at once,
\* on the grid Terminal::new creates.
WholeStreamRun ==
  Advance(ParserNew, SpawnPty(TermGridNew(InitialRows, InitialCols)),
          ParsedStream)

\* C14: however the child's output was split into reads, and whatever render
\* passes and key writes were interleaved, the grid and the parser are what a
\* single pass over the concatenated stream gives: events are applied in
\* stream order and partial sequences are carried across read boundaries.
C14_SingleStream ==
  /\ GridOf(Self) = GridOf(WholeStreamRun.g)
  /\ reader.parser = WholeStreamRun.parser

\* C14 witness: a read ended inside CSI 6 n after the two-byte character was
\* printed; the next read is waiting for the grid, which a render pass holds.
C14_Witness ==
  /\ reader.pc = "lock" /\ reader.parser.state = "csi"
  /\ cells[1][1].ch = "non-ascii"
  /\ ui.pc = "draw"

\* C15: a render pass that requests the grid lock eventually acquires it,
\* even when the child does not read its input. Fails: the reader loop
\* answers CSI 6 n with a blocking write while it holds the grid lock, so
\* once the PTY's input buffer is full the lock is never released.
C15_RenderAcquires == (ui.pc = "draw_lock") ~> (ui.pc = "draw")

\* C15, the part that holds: the reader loop never holds the grid lock while
\* it is blocked in read.
C15_ReadOutsideLock == reader.pc = "read" => grid_lock # "reader"

\* The state C15 fails in: the reader loop holds the grid lock and is blocked
\* in write_all on a full PTY, with a render pass waiting for the lock.
C15_BlockedUnderLock ==
  /\ grid_lock = "reader" /\ ReaderWriting
  /\ reader.sent < Len(reader.data) /\ ~PtyAccepts
  /\ ui.pc = "draw_lock"

\* C16: a write that fails is swallowed on both paths. With the write end
\* broken, a key that writes is still reported as handled and CSI 6 n still
\* returns; nothing panics, nothing more reaches the PTY, and the grid, the
\* focus flag and the returned value are what a successful write leaves.
C16_KeyWriteFails ==
  /\ keys' = keys + 1
  /\ write_end = "broken"
  /\ KeyWrites(last'.code, last'.inter, last'.params) # <<>>

C16_DsrWriteFails ==
  /\ keys' = keys /\ steps' = steps + 1
  /\ write_end = "broken"
  /\ last'.kind = "csi" /\ last'.code = "n" /\ last'.inter = <<>>
  /\ P(last'.params, 0, 0) = 6

C16_Swallowed ==
  /\ panic' = "none"
  /\ pty_out' = pty_out
  /\ GridFields' = GridFields
  /\ focus' = focus
  /\ write_end' = write_end

C16_KeySwallowed ==
  /\ C16_Swallowed
  /\ handled' = HandleKeyEvent([Self EXCEPT !.write_end = "open"], focus,
                               last'.code, last'.inter, last'.params).handled
  /\ handled' = TRUE

C16_FailureSwallowed ==
  [][/\ C16_KeyWriteFails => C16_KeySwallowed
     /\ C16_DsrWriteFails => C16_Swallowed /\ handled' = handled]_vars

\* C16 witness: after the write end broke, a key that writes was handled and
\* a CSI 6 n was answered, and nothing reached the PTY.
C16_Witness ==
  /\ write_end = "broken" /\ pty_out = <<>>
  /\ keys = 1 /\ handled = TRUE
  /\ last.kind = "csi" /\ last.code = "n" /\ last.params = <<6>>
  /\ panic = "none"

\* C17: once the child has terminated, the reader loop eventually observes
\* end of stream or an error, reaps the child and ends. Fails: end of stream
\* is signalled only when no slave handle is open, and the reader thread
\* holds one (_slave) until it ends, so its read never returns.
C17_ReaderTerminates == (pty.child = "exited") ~> (reader.pc = "done")

\* C17, the part that holds: the loop is left only from the read, outside the
\* grid's critical section, and the thread touches neither lock afterwards.
C17_LeftFromRead ==
  reader.pc \in {"wait", "done"} =>
    grid_lock # "reader" /\ writer_lock # "reader"

\* The state C17 fails in: the child has exited, all its output is parsed,
\* and the reader thread is blocked in read holding the slave handle.
C17_BlockedInRead ==
  /\ pty.child = "exited" /\ pty.output = <<>>
  /\ reader.pc = "read" /\ SlaveHeldByReader
  /\ ~EofSignalled

\* The calls C18 is about, read off the call just made.
C18_Unsupported ==
  LET l == last' IN
  /\ steps' = steps + 1
  /\ \/ l.kind = "string"
     \/ l.kind = "esc" /\ l.code # "M"
     \/ l.kind = "csi" /\ \E k \in DOMAIN l.inter : l.inter[k] = "?"
     \/ l.kind = "csi"
          /\ l.code \notin {"", "J", "K", "m", "r", "L", "M", "P", "@", "n"}
     \/ l.kind = "csi" /\ l.code = "J" /\ P(l.params, 0, 0) \notin {0, 1, 2, 3}
     \/ l.kind = "csi" /\ l.code = "K" /\ P(l.params, 0, 0) \notin {0, 1, 2}
     \/ l.kind = "csi" /\ l.code = "n" /\ P(l.params, 0, 0) # 6

\* C18: unsupported input is a silent no-op. A CSI sequence with the '?'
\* marker, a CSI sequence with an unimplemented final byte, an ESC sequence
\* other than ESC M, a string sequence, an erase with an undefined mode and
\* CSI n with a parameter other than 6 leave cells, cursor, scroll region and
\* pending attributes unchanged, write nothing to the PTY and do not panic.
C18_NoOp ==
  /\ GridFields' = GridFields
  /\ pty_out' = pty_out
  /\ pty_writer' = pty_writer
  /\ panic' = "none"

C18_UnsupportedIsNoOp == [][C18_Unsupported => C18_NoOp]_vars

\* C18 witness: CSI ? 2 J has been received on a grid whose first cell holds
\* a printed character and whose cursor has moved; the cell is still there.
C18_Witness ==
  /\ last.kind = "csi" /\ last.code = "J" /\ last.inter = <<"?">>
  /\ last.params = <<2>>
  /\ cells[1][1].ch \in Chars
  /\ cursor_col > 0

\* C19: the grid is created 24x80 and follows the measured size: once a
\* layout pass has measured a size that differs from the grid's, the grid's
\* rows and cols eventually equal the measured ones. The second half fails:
\* nothing calls TermGrid::resize, draw only reads the layout.
C19_GridFollowsLayout ==
  (layout # <<0, 0>> /\ <<rows, cols>> # layout) ~> (<<rows, cols>> = layout)

\* C19, the part that holds: the grid is created with 24 rows of 80 cells,
\* and it keeps that size whatever is measured and rendered.
C19_CreatedAtEstimate ==
  /\ rows = InitialRows /\ cols = InitialCols
  /\ Len(cells) = InitialRows
  /\ \A i \in 1..Len(cells) : Len(cells[i]) = InitialCols

\* C19: a render pass holds the grid while the measured size is 10x40 and the
\* grid is still 24x80.
C19_StaleGrid ==
  /\ layout = <<10, 40>>
  /\ ui.pc = "draw"
  /\ <<rows, cols>> = <<InitialRows, InitialCols>>

\* C20: the session is torn down with the widget: once the Terminal value is
\* dropped, the reader loop eventually ends, the child is reaped and the
\* grid and the write end are released. It fails: Terminal has no Drop impl,
\* the thread is detached and stays in read with its own handles.
C20_Released ==
  /\ reader.pc = "done"
  /\ GridOwners = {}
  /\ WriterOwners = {}

C20_TornDownOnDrop == (ui.pc = "dropped") ~> C20_Released

\* C20, the part that holds: there is one reader loop, one child and one
\* write end, and the drop of the Terminal changes nothing in the reader
\* thread, the child, the locks or the write end.
C20_DropStep ==
  (ui.pc # "dropped" /\ ui'.pc = "dropped") =>
    UNCHANGED <<reader, pty, grid_lock, writer_lock, write_end, pty_writer>>

C20_DropChangesNothing == [][C20_DropStep]_vars

\* C20: the widget is gone, the child runs and the reader thread is in read,
\* still holding the grid and, through it, the write end.
C20_Orphaned ==
  /\ ui.pc = "dropped"
  /\ pty.child = "running"
  /\ reader.pc = "read"
  /\ GridOwners = {"reader"}
  /\ WriterOwners = {"grid"}

\* The rows outside the scroll region are, cell for cell, what they were.
OutsideRegionKept ==
  /\ Len(cells') = Len(cells)
  /\ \A i \in 1..Len(cells) :
       (i - 1 < scroll_top \/ i - 1 > scroll_bottom) => cells'[i] = cells[i]

C21_LinesEdit ==
  /\ last'.kind = "csi" /\ last'.code \in {"L", "M"} /\ last'.inter = <<>>
  /\ scroll_top <= scroll_bottom /\ scroll_bottom < rows

\* C21: insert lines (CSI L) and delete lines (CSI M) shift content only
\* inside the scroll region: wherever the cursor is (inside, above or below
\* the region), the rows with index < scroll_top or > scroll_bottom are
\* unchanged afterwards, and the cursor is unchanged. It fails with the
\* cursor outside the region: the inserted or removed row is the cursor's.
C21_LinesStayInRegion ==
  [][C21_LinesEdit => (OutsideRegionKept /\ UNCHANGED Cursor)]_vars

\* C21, the part that holds: with the cursor inside the region the rows
\* outside are kept, the cursor, the region and the size are unchanged, the
\* rows of the region above the cursor are kept, and the row at the cursor
\* is blank after an insert and the region's last row is blank after a
\* delete.
C21_InsideStep ==
  (C21_LinesEdit /\ scroll_top <= cursor_row /\ cursor_row <= scroll_bottom) =>
    /\ OutsideRegionKept
    /\ UNCHANGED <<Cursor, Region, Shape, Pending, pty_out>>
    /\ \A i \in 1..Len(cells) :
         (scroll_top <= i - 1 /\ i - 1 < cursor_row) => cells'[i] = cells[i]
    /\ last'.code = "L" => cells'[cursor_row + 1] = BlankRow(cols)
    /\ last'.code = "M" => cells'[scroll_bottom + 1] = BlankRow(cols)

C21_InsideRegion == [][C21_InsideStep]_vars

\* C21: CSI L has run with the cursor on row 0 and the region 1..2; the
\* printed cell of row 0, above the region, has moved to row 1.
C21_AboveRegionShifted ==
  /\ last.kind = "csi" /\ last.code = "L" /\ last.inter = <<>>
  /\ rows = 3 /\ scroll_top = 1 /\ scroll_bottom = 2 /\ cursor_row = 0
  /\ cells[1] = BlankRow(cols)
  /\ cells[2][1].ch \in Chars

\* A 256-colour lookup has just run: last is CSI 38;5;N m or CSI 48;5;N m.
C22_Looked ==
  /\ last.kind = "csi" /\ last.code = "m" /\ Len(last.params) = 3
  /\ last.params[1] \in {38, 48} /\ last.params[2] = 5

\* The colour the lookup has stored.
C22_Got == IF last.params[1] = 38 THEN current_fg ELSE current_bg

\* The grey level of index n computed on the integers.
GreyLevel(n) == 8 + 10 * (n - 232)

\* C22: for every index N the parser can deliver, the lookup performs no
\* 8-bit overflow: it does not panic, and for N >= 232 the stored grey is
\* the level 8 + 10 * k of its ramp position k = (N - 232) mod 256, a value
\* in 0..255. It fails from N = 257 on: 8 + 10 * 25 = 258.
C22_NoOverflow ==
  C22_Looked =>
    /\ panic = "none"
    /\ last.params[3] >= 232 =>
         LET v == GreyLevel(232 + ((last.params[3] - 232) % 256))
         IN  v <= 255 /\ C22_Got = <<v, v, v>>

\* C22, the part that holds: the indices up to 256 do not overflow.
C22_NoOverflowTo256 ==
  (C22_Looked /\ last.params[3] <= 256) =>
    /\ panic = "none"
    /\ \A k \in 1..3 : C22_Got[k] \in 0..255
    /\ last.params[3] >= 232 =>
         C22_Got = <<GreyLevel(last.params[3]), GreyLevel(last.params[3]),
                     GreyLevel(last.params[3])>>

\* C22: CSI 48;5;257 m has stored the wrapped grey 258 - 256 = 2.
C22_WrappedGrey ==
  /\ C22_Looked /\ last.params = <<48, 5, 257>>
  /\ panic = "none"
  /\ current_bg = <<2, 2, 2>>

\* The pending attributes as one value, and the effect of one plain code.
Attributes(fg, bg, bold) == [fg |-> fg, bg |-> bg, bold |-> bold]

CodeEffect(att, code) ==
  CASE code = 0 -> Attributes(DefaultFg, NoBg, FALSE)
    [] code = 1 -> [att EXCEPT !.bold = TRUE]
    [] code = 22 -> [att EXCEPT !.bold = FALSE]
    [] code \in 30..37 -> [att EXCEPT !.fg = Ansi16[code - 29]]
    [] code = 39 -> [att EXCEPT !.fg = DefaultFg]
    [] code \in 40..47 -> [att EXCEPT !.bg = Ansi16[code - 39]]
    [] code = 49 -> [att EXCEPT !.bg = NoBg]
    [] code \in 90..97 -> [att EXCEPT !.fg = Ansi16[code - 81]]
    [] OTHER -> att

\* The units of a parameter list, left to right: a plain code, or 38;5;N or
\* 48;5;N with its two arguments. The lists the statement describes are
\* those in which every 38 and 48 begins such a form with N <= 255.
RECURSIVE Described(_)
Described(params) ==
  IF params = <<>> THEN TRUE
  ELSE IF Head(params) \in {38, 48}
  THEN /\ Len(params) >= 3 /\ params[2] = 5 /\ params[3] <= 255
       /\ Described(SubSeq(params, 4, Len(params)))
  ELSE Described(Tail(params))

RECURSIVE Fold(_, _)
Fold(att, params) ==
  IF params = <<>> THEN att
  ELSE IF Head(params) = 38
  THEN Fold([att EXCEPT !.fg = ReferenceColour(params[3])],
            SubSeq(params, 4, Len(params)))
  ELSE IF Head(params) = 48
  THEN Fold([att EXCEPT !.bg = ReferenceColour(params[3])],
            SubSeq(params, 4, Len(params)))
  ELSE Fold(CodeEffect(att, Head(params)), Tail(params))

C23_Sgr ==
  /\ last'.kind = "csi" /\ last'.code = "m" /\ last'.inter = <<>>
  /\ Described(last'.params)

\* C23: after CSI ... m the pending attributes are the left fold of the
\* per-code effects over the parameter list, 38;5;N and 48;5;N taking the 5
\* and the N as arguments (never as codes) and the parameters after N being
\* processed normally; an empty list acts as 0; no cell, the cursor, the
\* size, the scroll region and the PTY are unchanged.
C23_Step ==
  C23_Sgr =>
    /\ Attributes(current_fg', current_bg', current_bold') =
         Fold(Attributes(current_fg, current_bg, current_bold),
              IF last'.params = <<>> THEN <<0>> ELSE last'.params)
    /\ UNCHANGED <<cells, Cursor, Shape, Region, pty_out>>
    /\ panic' = "none"

C24_TrueColour ==
  /\ last'.kind = "csi" /\ last'.code = "m" /\ last'.inter = <<>>
  /\ Len(last'.params) = 5
  /\ last'.params[1] \in {38, 48} /\ last'.params[2] = 2

\* C24: the truecolor forms CSI 38;2;R;G;B m and CSI 48;2;R;G;B m are a
\* no-op for all R, G, B: pending foreground, background and bold are what
\* they were. It fails: only the selector 2 is skipped, and R, G and B are
\* then applied as SGR codes.
C24_TrueColourNoOp == [][C24_TrueColour => UNCHANGED Pending]_vars

\* C24, the part that holds: no cell, cursor, size or region changes, and
\* the pending attributes are those of applying R, G and B as codes; they
\* are unchanged when none of R, G, B is a code (255;255;255).
C24_ValuesStep ==
  C24_TrueColour =>
    /\ UNCHANGED <<cells, Cursor, Shape, Region, pty_out>>
    /\ Attributes(current_fg', current_bg', current_bold') =
         Fold(Attributes(current_fg, current_bg, current_bold),
              SubSeq(last'.params, 3, 5))

C24_ValuesAppliedAsCodes == [][C24_ValuesStep]_vars

\* C24: CSI 38;2;0;1;41 m, a foreground colour with B = 41, has turned bold
\* on (G = 1) and set the red background of code 41.
C24_BlueSetsBackground ==
  /\ last.kind = "csi" /\ last.code = "m" /\ last.params = <<38, 2, 0, 1, 41>>
  /\ current_bold
  /\ current_bg = <<205, 49, 49>>
  /\ current_fg = DefaultFg

\* The cells (r, c), 0-based, that CSI J and CSI K are to erase in each mode.
InDisplay(mode, r, c) ==
  CASE mode = 0 -> r > cursor_row \/ (r = cursor_row /\ c >= cursor_col)
    [] mode = 1 -> r < cursor_row \/ (r = cursor_row /\ c <= cursor_col)
    [] mode \in {2, 3} -> TRUE

InLine(mode, r, c) ==
  /\ r = cursor_row
  /\ CASE mode = 0 -> c >= cursor_col
       [] mode = 1 -> c <= cursor_col
       [] mode = 2 -> TRUE

C25_Erase ==
  /\ last'.kind = "csi" /\ last'.code \in {"J", "K"} /\ last'.inter = <<>>
  /\ P(last'.params, 0, 0) \in (IF last'.code = "J" THEN 0..3 ELSE 0..2)

\* C25: CSI J and CSI K replace exactly the cells of their mode with default
\* cells (a missing or zero parameter is mode 0) and change nothing else:
\* every other cell, the cursor, the scroll region and the pending
\* attributes are as before, also with cursor_col = cols.
C25_Step ==
  C25_Erase =>
    LET mode == P(last'.params, 0, 0) IN
    /\ Len(cells') = rows
    /\ \A i \in 1..rows :
         /\ Len(cells'[i]) = cols
         /\ \A j \in 1..cols :
              cells'[i][j] =
                IF (IF last'.code = "J" THEN InDisplay(mode, i - 1, j - 1)
                    ELSE InLine(mode, i - 1, j - 1))
                THEN DefaultCell ELSE cells[i][j]
    /\ UNCHANGED <<Cursor, Region, Pending, Shape, pty_out>>
    /\ panic' = "none"

C25_EraseExact == [][C25_Step]_vars

\* C25 witness: CSI J in mode 0 with the cursor past the last column of the
\* first row (cursor_col = cols) after two prints: both printed cells of
\* the row, which lie before the cursor, are still there.
C25_Witness ==
  /\ last.kind = "csi" /\ last.code = "J" /\ last.inter = <<>>
  /\ last.params \in {<<>>, <<0>>}
  /\ rows > 1 /\ cursor_row = 0 /\ cursor_col = cols /\ cols = 2
  /\ cells[1][1].ch \in Chars /\ cells[1][2].ch \in Chars

\* The rows after the region scroll_top..scroll_bottom has scrolled down by
\* one.
ScrolledDown ==
  [i \in 1..rows |->
     IF i - 1 = scroll_top THEN BlankRow(cols)
     ELSE IF scroll_top < i - 1 /\ i - 1 <= scroll_bottom THEN cells[i - 1]
     ELSE cells[i]]

C26_ReverseIndex ==
  /\ last'.kind = "esc" /\ last'.code = "M"
  /\ scroll_top <= scroll_bottom /\ scroll_bottom < rows

\* C26: ESC M with the cursor on scroll_top scrolls the region down by one
\* (row scroll_bottom is dropped, the rows of the region move down, row
\* scroll_top is blank), for every ordered region, a one-row region too,
\* with the cursor and the rows outside the region unchanged; elsewhere it
\* decrements cursor_row, not below 0, and changes no cell.
C26_Step ==
  C26_ReverseIndex =>
    /\ UNCHANGED <<Shape, Region, Pending, cursor_col, pty_out>>
    /\ panic' = "none"
    /\ IF cursor_row = scroll_top
       THEN cells' = ScrolledDown /\ cursor_row' = cursor_row
       ELSE cells' = cells /\ cursor_row' = SatSub(cursor_row, 1)

C26_ReverseIndexScrolls == [][C26_Step]_vars

\* C26 witness: ESC M with the cursor on row 0 of the region 0..1 of a grid
\* of three rows: row 0 is blank and its printed cell is now on row 1.
C26_Witness ==
  /\ last.kind = "esc" /\ last.code = "M"
  /\ rows = 3 /\ scroll_top = 0 /\ scroll_bottom = 1 /\ cursor_row = 0
  /\ cells[1] = BlankRow(cols)
  /\ cells[2][1].ch \in Chars
  /\ cells[3] = BlankRow(cols)

C27_Marked ==
  /\ last'.kind = "csi"
  /\ last'.inter # <<>>
  /\ \A k \in DOMAIN last'.inter : last'.inter[k] # "?"

\* C27: a CSI sequence with a private marker or intermediate other than '?'
\* ('>', '$', ...) is ignored whatever its final byte: cells, cursor, scroll
\* region and pending attributes are unchanged and nothing is written. It
\* fails: csi_dispatch looks only for '?', so CSI > 1 m is taken for
\* CSI 1 m and CSI 2 $ r for CSI 2 r.
C27_MarkedIgnored ==
  [][C27_Marked => (GridFields' = GridFields /\ pty_out' = pty_out)]_vars

\* C27, the part that holds: such a sequence is ignored when its final byte
\* is not an implemented one (CSI > c).
C27_UnknownFinalStep ==
  (C27_Marked /\ last'.code = "c") =>
    (GridFields' = GridFields /\ pty_out' = pty_out /\ panic' = "none")

C27_MarkedUnknownFinalIgnored == [][C27_UnknownFinalStep]_vars

\* C27: CSI > 1 m has turned bold on.
C27_BoldByPrivateSgr ==
  /\ last.kind = "csi" /\ last.code = "m" /\ last.inter = <<">">>
  /\ steps = 1
  /\ current_bold

C28_Tab == last'.kind = "execute" /\ last'.params = <<9>>

\* The tab stop after column c, or the last column when the stop is past it.
NextTabStop(c) ==
  LET stop == 8 * ((c \div 8) + 1)
  IN  IF stop > cols - 1 THEN cols - 1 ELSE stop

\* C28: HT never moves the cursor left: in every state, the pending-wrap
\* state cursor_col = cols included, the new cursor_col is the next multiple
\* of 8, or cols - 1 when that is past the last column, it is >= the old
\* cursor_col, and nothing else changes. It fails in the pending-wrap
\* state: the clamp takes the cursor from cols back to cols - 1.
C28_Step ==
  C28_Tab =>
    /\ cursor_col' = NextTabStop(cursor_col)
    /\ cursor_col' >= cursor_col
    /\ UNCHANGED <<cells, Shape, Region, Pending, cursor_row, pty_out>>

C28_TabNeverMovesLeft == [][C28_Step]_vars

\* C28, the part that holds: the new column is the stop or cols - 1 and
\* nothing else changes; the cursor does not move left from a column of the
\* grid (cursor_col < cols).
C28_OnGridStep ==
  C28_Tab =>
    /\ cursor_col' = NextTabStop(cursor_col)
    /\ cursor_col < cols => cursor_col' >= cursor_col
    /\ UNCHANGED <<cells, Shape, Region, Pending, cursor_row, pty_out>>
    /\ panic' = "none"

C28_TabFromGridColumn == [][C28_OnGridStep]_vars

\* C28: HT after two prints on a grid of two columns: the cursor, which the
\* second print left at cursor_col = 2, is on column 1, on the cell of the
\* second character.
C28_TabMovedLeft ==
  /\ last.kind = "execute" /\ last.params = <<9>>
  /\ cols = 2 /\ cursor_col = 1 /\ steps = 3
  /\ cells[cursor_row + 1][1].ch \in Chars
  /\ cells[cursor_row + 1][2].ch \in Chars

\* The write w is a cursor-position report of a row in 1..maxrow and a
\* column in 1..maxcol.
ReportsWithin(w, maxrow, maxcol) ==
  \E r \in 1..maxrow, c \in 1..maxcol : IsReport(w, r, c)

C29_Reported ==
  /\ C8_Query
  /\ Len(pty_out') = Len(pty_out) + 1

\* C29: every cursor-position report names a position on the grid: in
\* ESC [ r ; c R, 1 <= r <= rows and 1 <= c <= cols, in whatever state the
\* query arrives. It fails directly after a print into the last column: the
\* report names column cols + 1.
C29_Step ==
  C29_Reported => ReportsWithin(pty_out'[Len(pty_out')], rows, cols)

C29_ReportOnGrid == [][C29_Step]_vars

\* C29, the part that holds: the row is on the grid and the column is at
\* most cols + 1.
C29_NearStep ==
  C29_Reported => ReportsWithin(pty_out'[Len(pty_out')], rows, cols + 1)

C29_ReportRowOnGrid == [][C29_NearStep]_vars

\* C29: CSI 6 n after two prints on a grid of two columns has reported
\* column 3: ESC [ 1 ; 3 R.
C29_ReportedOffGrid ==
  /\ last.kind = "csi" /\ last.code = "n" /\ last.params = <<6>>
  /\ last.inter = <<>>
  /\ cols = 2 /\ cursor_row = 0
  /\ pty_out = << <<27, 91, 49, 59, 51, 82>> >>

\* The locks a thread holds, and the lock it is waiting for (if any).
Held(thread) ==
  (IF grid_lock = thread THEN {"grid"} ELSE {})
    \cup (IF writer_lock = thread THEN {"writer"} ELSE {})

UiWaitsFor ==
  CASE ui.pc = "key_lock" -> {"writer"}
    [] ui.pc = "draw_lock" -> {"grid"}
    [] OTHER -> {}

ReaderWaitsFor ==
  CASE reader.pc = "lock" -> {"grid"}
    [] reader.pc = "dsr_lock" -> {"writer"}
    [] OTHER -> {}

\* C30: the locks are taken in one order. The UI thread holds at most one
\* lock and holds none while it waits for one; the reader thread takes the
\* writer lock only while it holds the grid lock, and waits for the grid
\* lock holding nothing; the grid's write end is installed from the start
\* of the reader loop; so the two threads never each hold a lock the other
\* waits for.
C30_LockOrder ==
  /\ pty_writer
  /\ Cardinality(Held("ui")) <= 1
  /\ UiWaitsFor # {} => Held("ui") = {}
  /\ "writer" \in Held("reader") => "grid" \in Held("reader")
  /\ ReaderWaitsFor = {"grid"} => Held("reader") = {}
  /\ ReaderWaitsFor = {"writer"} => Held("reader") = {"grid"}
  /\ ~(/\ UiWaitsFor \cap Held("reader") # {}
       /\ ReaderWaitsFor \cap Held("ui") # {})

\* C30 witness: the reader, holding the grid lock, waits for the writer
\* lock to answer CSI 6 n while the UI thread holds the writer lock for a
\* key and nothing else.
C30_Witness ==
  /\ reader.pc = "dsr_lock" /\ Held("reader") = {"grid"}
  /\ ui.pc = "key_write" /\ Held("ui") = {"writer"}

====
